---- MODULE Spec2Model ----
(***************************************************************************)
(* International Payment System: the password-security utility, the User   *)
(* model, the auth routes and the client payment routes, as state          *)
(* machines.  Strings are sequences of character codes (UTF-16 code units, *)
(* here always ASCII), so that the regular expressions and the bcrypt      *)
(* 72-byte limit act on them as they do in the program.                    *)
(***************************************************************************)
EXTENDS Integers, Sequences, FiniteSets, TLC

VARIABLES
    PEPPER,      \* passwordSecurity.js: the process-wide pepper
    users,       \* the User collection: sequence of documents, _id = index
    now,         \* Date.now(), in milliseconds
    hashCount,   \* number of bcrypt.hash calls made so far (salts are fresh)
    resp,        \* the last request handled by the auth router and its response
    issued,      \* recovery codes handed out: email -> [code, at] of the latest
    recent,      \* per user _id: the passwords set so far, oldest first
    payments,    \* the Payment collection: sequence of documents
    presp,       \* the last request handled by the payments router and its response
    fin,         \* inputs of the pure function under evaluation
    fout,        \* its result
    pending      \* register requests in flight: sequence of [req, at]

vars == <<PEPPER, users, now, hashCount, resp, issued, recent, payments, presp, fin, fout,
          pending>>

-----------------------------------------------------------------------------
(* Character classes and string helpers *)

Range(s) == {s[i] : i \in 1..Len(s)}

Take(s, n) == IF Len(s) <= n THEN s ELSE SubSeq(s, 1, n)

UpperChars == 65..90
LowerChars == 97..122
DigitChars == 48..57

\* String.prototype.toLowerCase, on ASCII
ToLowerChar(c) == IF c \in UpperChars THEN c + 32 ELSE c
ToLower(s) == [i \in 1..Len(s) |-> ToLowerChar(s[i])]
ToUpper(s) == [i \in 1..Len(s) |-> IF s[i] \in LowerChars THEN s[i] - 32 ELSE s[i]]

\* some position of s starts with pat
Contains(s, pat) ==
    \E i \in 1..(Len(s) - Len(pat) + 1) : SubSeq(s, i, i + Len(pat) - 1) = pat

\* RegExp \w
WordChars == UpperChars \cup LowerChars \cup DigitChars \cup {95}

\* RegExp \s within ASCII: tab, LF, VT, FF, CR, space
SpaceChars == {9, 10, 11, 12, 13, 32}

\* String.prototype.trim
RECURSIVE TrimStart(_)
TrimStart(s) == IF s # <<>> /\ Head(s) \in SpaceChars THEN TrimStart(Tail(s)) ELSE s
RECURSIVE TrimEnd(_)
TrimEnd(s) ==
    IF s # <<>> /\ s[Len(s)] \in SpaceChars THEN TrimEnd(SubSeq(s, 1, Len(s) - 1)) ELSE s
Trim(s) == TrimEnd(TrimStart(s))

\* n copies of character c
Repeat(c, n) == [i \in 1..n |-> c]

-----------------------------------------------------------------------------
(* backend/utils/passwordSecurity.js *)

\* process.env.PASSWORD_PEPPER of the deployment, trimmed: "pepper-from-env"
EnvPepper == <<112,101,112,112,101,114,45,102,114,111,109,45,101,110,118>>

\* crypto.randomBytes(32).toString('hex'): 64 hex digits; two possible draws
RandomPeppers == {Repeat(97, 64), Repeat(48, 63) \o <<102>>}

SALT_ROUNDS == 10

\* bcrypt uses only the first 72 bytes of its input
BCRYPT_MAX_BYTES == 72

\* a stored string that is no bcrypt hash
MalformedHash == [salt |-> 0, rounds |-> 0, key |-> <<>>]

\* bcrypt.hash(data, rounds) with the salt it generated: the hash string embeds the
\* cost and the salt, and is a one-to-one image of the key bytes under that salt
bcrypt_hash(data, rounds, salt) ==
    [salt |-> salt, rounds |-> rounds, key |-> Take(data, BCRYPT_MAX_BYTES)]

\* bcrypt.compare(data, hash): re-derives with the parameters embedded in hash
bcrypt_compare(data, hash) ==
    /\ hash.salt # 0
    /\ bcrypt_hash(data, hash.rounds, hash.salt) = hash

hashPassword(password, salt) == bcrypt_hash(password \o PEPPER, SALT_ROUNDS, salt)

\* a variant of verifyPassword that leaves the pepper out
verifyPassword_NoPepper(password, hash) == bcrypt_compare(password, hash)

verifyPassword(password, hash) == bcrypt_compare(password \o PEPPER, hash)

\* the hash argument of verifyPassword: a stored credential, or undefined
Stored(hash) == [absent |-> FALSE, hash |-> hash]
AbsentCredential == [absent |-> TRUE, hash |-> MalformedHash]

\* await bcrypt.compare(data, hash): rejects when hash is missing and when the
\* library fails (fault); resolves to false for a string that is no bcrypt hash
bcrypt_compare_call(data, credential, fault) ==
    IF credential.absent \/ fault
    THEN [threw |-> TRUE, value |-> FALSE]
    ELSE [threw |-> FALSE, value |-> bcrypt_compare(data, credential.hash)]

\* a variant of verifyPassword without the catch
verifyPasswordCall_NoCatch(password, credential, fault) ==
    bcrypt_compare_call(password \o PEPPER, credential, fault)

\* verifyPassword as a call: the catch turns every rejection into false
verifyPasswordCall(password, credential, fault) ==
    LET compared == bcrypt_compare_call(password \o PEPPER, credential, fault)
    IN  IF compared.threw
        THEN [threw |-> FALSE, value |-> FALSE]
        ELSE [threw |-> FALSE, value |-> compared.value]

\* [!@#$%^&*()_+\-=\[\]{};':"\\|,.<>\/?]
SpecialChars ==
    {33,64,35,36,37,94,38,42,40,41,95,43,45,61,91,93,123,125,59,39,58,34,92,124,44,46,60,62,47,63}

commonPasswords == {
    <<112,97,115,115,119,111,114,100>>,            \* password
    <<112,97,115,115,119,111,114,100,49,50,51>>,   \* password123
    <<49,50,51,52,53,54,55,56>>,                   \* 12345678
    <<113,119,101,114,116,121>>,                   \* qwerty
    <<97,98,99,49,50,51>>,                         \* abc123
    <<109,111,110,107,101,121>>,                   \* monkey
    <<49,50,51,52,53,54,55>>,                      \* 1234567
    <<108,101,116,109,101,105,110>>,               \* letmein
    <<116,114,117,115,116,110,111,49>>,            \* trustno1
    <<100,114,97,103,111,110>>,                    \* dragon
    <<98,97,115,101,98,97,108,108>>,               \* baseball
    <<105,108,111,118,101,121,111,117>>,           \* iloveyou
    <<109,97,115,116,101,114>>,                    \* master
    <<115,117,110,115,104,105,110,101>>,           \* sunshine
    <<97,115,104,108,101,121>>,                    \* ashley
    <<98,97,105,108,101,121>>,                     \* bailey
    <<112,97,115,115,119,48,114,100>>,             \* passw0rd
    <<115,104,97,100,111,119>>,                    \* shadow
    <<49,50,51,49,50,51>>,                         \* 123123
    <<54,53,52,51,50,49>>                          \* 654321
}

\* /(?:abc|bcd|...|xyz|012|123|...|789)/i
HasSequential(s) ==
    \E i \in 1..(Len(s) - 2) :
        LET a == ToLowerChar(s[i])
            b == ToLowerChar(s[i + 1])
            c == ToLowerChar(s[i + 2])
        IN  /\ b = a + 1
            /\ c = b + 1
            /\ \/ {a, b, c} \subseteq LowerChars
               \/ {a, b, c} \subseteq DigitChars

\* /(.)\1{2,}/  ('.' matches no line terminator)
HasRepeated(s) ==
    \E i \in 1..(Len(s) - 2) :
        /\ s[i] \notin {10, 13}
        /\ s[i + 1] = s[i]
        /\ s[i + 2] = s[i]

MsgMinLength == "Password must be at least 8 characters long"
MsgMaxLength == "Password must not exceed 128 characters"
MsgUpper == "Password must contain at least one uppercase letter"
MsgLower == "Password must contain at least one lowercase letter"
MsgDigit == "Password must contain at least one number"
MsgSpecial ==
    "Password must contain at least one special character (!@#$%^&*()_+-=[]{};':\"|,.<>/?)"
MsgCommon == "Password is too common. Please choose a more secure password"
MsgSequential == "Password should not contain sequential characters"
MsgRepeated == "Password should not contain repeated characters (e.g., \"aaa\", \"111\")"

\* a variant of calculatePasswordStrength without the point for additional complexity
calculatePasswordStrength_NoBonus(password) ==
    IF password = <<>> THEN "weak"
    ELSE
    LET len == Len(password)
        lower == Range(password) \cap LowerChars # {}
        upper == Range(password) \cap UpperChars # {}
        digit == Range(password) \cap DigitChars # {}
        special == Range(password) \cap SpecialChars # {}
        score == (IF len >= 8 THEN 1 ELSE 0) + (IF len >= 12 THEN 1 ELSE 0)
               + (IF len >= 16 THEN 1 ELSE 0)
               + (IF lower THEN 1 ELSE 0) + (IF upper THEN 1 ELSE 0)
               + (IF digit THEN 1 ELSE 0) + (IF special THEN 1 ELSE 0)
    IN  IF score <= 3 THEN "weak"
        ELSE IF score <= 5 THEN "medium"
        ELSE IF score <= 6 THEN "strong"
        ELSE "very-strong"

calculatePasswordStrength(password) ==
    IF password = <<>> THEN "weak"
    ELSE
    LET len == Len(password)
        lower == Range(password) \cap LowerChars # {}
        upper == Range(password) \cap UpperChars # {}
        digit == Range(password) \cap DigitChars # {}
        special == Range(password) \cap SpecialChars # {}
        score == (IF len >= 8 THEN 1 ELSE 0) + (IF len >= 12 THEN 1 ELSE 0)
               + (IF len >= 16 THEN 1 ELSE 0)
               + (IF lower THEN 1 ELSE 0) + (IF upper THEN 1 ELSE 0)
               + (IF digit THEN 1 ELSE 0) + (IF special THEN 1 ELSE 0)
               + (IF len >= 12 /\ lower /\ upper /\ digit /\ special THEN 1 ELSE 0)
    IN  IF score <= 3 THEN "weak"
        ELSE IF score <= 5 THEN "medium"
        ELSE IF score <= 6 THEN "strong"
        ELSE "very-strong"

\* errors in the order the checks push them
validatePasswordStrength(password) ==
    LET e1 == IF password = <<>> \/ Len(password) < 8 THEN <<MsgMinLength>> ELSE <<>>
        e2 == IF password # <<>> /\ Len(password) > 128 THEN <<MsgMaxLength>> ELSE <<>>
        e3 == IF Range(password) \cap UpperChars = {} THEN <<MsgUpper>> ELSE <<>>
        e4 == IF Range(password) \cap LowerChars = {} THEN <<MsgLower>> ELSE <<>>
        e5 == IF Range(password) \cap DigitChars = {} THEN <<MsgDigit>> ELSE <<>>
        e6 == IF Range(password) \cap SpecialChars = {} THEN <<MsgSpecial>> ELSE <<>>
        e7 == IF ToLower(password) \in commonPasswords THEN <<MsgCommon>> ELSE <<>>
        e8 == IF HasSequential(password) THEN <<MsgSequential>> ELSE <<>>
        e9 == IF HasRepeated(password) THEN <<MsgRepeated>> ELSE <<>>
        errors == e1 \o e2 \o e3 \o e4 \o e5 \o e6 \o e7 \o e8 \o e9
    IN  [isValid |-> Len(errors) = 0,
         errors |-> errors,
         strength |-> calculatePasswordStrength(password)]

\* a value of a JSON request body: its type and String(value)
JsonString(chars) == [chars |-> chars, type |-> "string"]
JsonUndefined == [chars |-> <<117,110,100,101,102,105,110,101,100>>, type |-> "undefined"]
JsonNull == [chars |-> <<110,117,108,108>>, type |-> "null"]
JsonNumber(digits) == [chars |-> digits, type |-> "number"]
JsonTrue == [chars |-> <<116,114,117,101>>, type |-> "boolean"]

\* !value
Falsy(value) ==
    \/ value.type \in {"undefined", "null"}
    \/ value.type = "string" /\ value.chars = <<>>
    \/ value.type = "number" /\ value.chars = <<48>>

\* validatePasswordStrength(password) on any value: password.toLowerCase()
\* is a TypeError for everything but a string
validatePasswordStrengthCall(password) ==
    IF password.type = "string"
    THEN [threw |-> FALSE, value |-> validatePasswordStrength(password.chars)]
    ELSE [threw |-> TRUE, value |-> [errors |-> <<>>, isValid |-> FALSE, strength |-> ""]]

\* the passwordHistory argument: an array, or absent (undefined / null)
AbsentHistory == [absent |-> TRUE, items |-> <<>>]
HistoryArray(items) == [absent |-> FALSE, items |-> items]

\* a variant of the loop that looks at the first entry only
isPasswordUniqueLoop_FirstOnly(newPassword, rest) ==
    rest = <<>> \/ ~verifyPassword(newPassword, Head(rest))

\* the for-of loop over passwordHistory, returning false at the first match
RECURSIVE isPasswordUniqueLoop(_, _)
isPasswordUniqueLoop(newPassword, rest) ==
    IF rest = <<>> THEN TRUE
    ELSE IF verifyPassword(newPassword, Head(rest)) THEN FALSE
    ELSE isPasswordUniqueLoop(newPassword, Tail(rest))

\* the number of verifyPassword calls the for-of loop makes: one per entry up
\* to and including the first that matches
RECURSIVE isPasswordUniqueLoopCalls(_, _)
isPasswordUniqueLoopCalls(newPassword, rest) ==
    IF rest = <<>> THEN 0
    ELSE IF verifyPassword(newPassword, Head(rest)) THEN 1
    ELSE 1 + isPasswordUniqueLoopCalls(newPassword, Tail(rest))

\* the number of verifyPassword calls of isPasswordUnique
isPasswordUniqueCalls(newPassword, passwordHistory) ==
    IF passwordHistory.absent \/ Len(passwordHistory.items) = 0 THEN 0
    ELSE isPasswordUniqueLoopCalls(newPassword, passwordHistory.items)

isPasswordUnique(newPassword, passwordHistory) ==
    IF passwordHistory.absent \/ Len(passwordHistory.items) = 0 THEN TRUE
    ELSE isPasswordUniqueLoop(newPassword, passwordHistory.items)

-----------------------------------------------------------------------------
(* backend/utils/inputValidation.js (the server-side validator) *)

\* /^[^\s@]+@[^\s@]+\.[^\s@]+$/
MatchesEmail(s) ==
    /\ Range(s) \cap SpaceChars = {}
    /\ Cardinality({i \in 1..Len(s) : s[i] = 64}) = 1
    /\ LET at == CHOOSE i \in 1..Len(s) : s[i] = 64
       IN  /\ at > 1
           /\ \E j \in (at + 2)..(Len(s) - 1) : s[j] = 46

WhitelistFields ==
    {"alphanumeric", "username", "email", "idNumber", "accountNumber", "fullname"}

MatchesWhitelist(str, type) ==
    CASE type = "alphanumeric" ->
            Len(str) >= 1 /\ Range(str) \subseteq (WordChars \cup {45})
      [] type = "username" ->
            Len(str) >= 3 /\ Len(str) <= 20 /\ Range(str) \subseteq WordChars
      [] type = "email" -> MatchesEmail(str)
      [] type = "idNumber" ->
            Len(str) >= 5 /\ Len(str) <= 20 /\ Range(str) \subseteq DigitChars
      [] type = "accountNumber" ->
            Len(str) >= 8 /\ Len(str) <= 18 /\ Range(str) \subseteq DigitChars
      [] type = "fullname" ->
            /\ Len(str) >= 2 /\ Len(str) <= 50
            /\ Range(str) \subseteq (UpperChars \cup LowerChars \cup {32, 46, 45})
      [] OTHER -> FALSE

validateAgainstWhitelist(value, type) ==
    IF type \notin WhitelistFields
    THEN [isValid |-> FALSE, error |-> "ConfigurationError"]
    ELSE LET isValid == MatchesWhitelist(Trim(value), type)
         IN  [isValid |-> isValid, error |-> IF isValid THEN "" ELSE type]

\* a keyword between word boundaries, case-insensitively: /\b(kw)\b/i
HasWord(s, kw) ==
    LET low == ToLower(s)
    IN  \E i \in 1..(Len(s) - Len(kw) + 1) :
            /\ SubSeq(low, i, i + Len(kw) - 1) = kw
            /\ i = 1 \/ s[i - 1] \notin WordChars
            /\ i + Len(kw) > Len(s) \/ s[i + Len(kw)] \notin WordChars

SqlKeywords == {
    <<115,101,108,101,99,116>>,          \* select
    <<117,112,100,97,116,101>>,          \* update
    <<100,101,108,101,116,101>>,         \* delete
    <<105,110,115,101,114,116>>,         \* insert
    <<100,114,111,112>>,                 \* drop
    <<97,108,116,101,114>>,              \* alter
    <<99,114,101,97,116,101>>,           \* create
    <<116,114,117,110,99,97,116,101>>    \* truncate
}

NoSqlOperators == {
    <<36,119,104,101,114,101>>,   \* $where
    <<36,114,101,103,101,120>>,   \* $regex
    <<36,103,116>>,               \* $gt
    <<36,108,116>>,               \* $lt
    <<36,110,101>>,               \* $ne
    <<36,105,110>>,               \* $in
    <<36,110,105,110>>,           \* $nin
    <<36,111,114>>,               \* $or
    <<36,97,110,100>>             \* $and
}

XssMarkers == {
    <<111,110,101,114,114,111,114,61>>,           \* onerror=
    <<111,110,108,111,97,100,61>>,                \* onload=
    <<106,97,118,97,115,99,114,105,112,116,58>>   \* javascript:
}

ShellCommands == {
    <<99,97,116>>,          \* cat
    <<108,115>>,            \* ls
    <<114,109>>,            \* rm
    <<116,111,117,99,104>>, \* touch
    <<99,117,114,108>>,     \* curl
    <<119,103,101,116>>     \* wget
}

\* /<script[^>]*>/i
HasScriptTag(s) ==
    LET low == ToLower(s)
        tag == <<60,115,99,114,105,112,116>>
    IN  \E i \in 1..(Len(s) - Len(tag) + 1) :
            /\ SubSeq(low, i, i + Len(tag) - 1) = tag
            /\ \E j \in (i + Len(tag))..Len(s) : s[j] = 62

\* /(\.\.\/|\.\.\\|\/[A-Za-z0-9_-]+\/)/
HasPathTraversal(s) ==
    \/ Contains(s, <<46,46,47>>)
    \/ Contains(s, <<46,46,92>>)
    \/ \E i \in 1..Len(s) : \E j \in (i + 2)..Len(s) :
            /\ s[i] = 47
            /\ s[j] = 47
            /\ \A k \in (i + 1)..(j - 1) : s[k] \in (WordChars \cup {45})

\* the signatures of the denylist that match value, every one of them
InjectionThreats(s) ==
    {t \in {"sql", "nosql", "xss", "command", "path", "nul"} :
        CASE t = "sql" -> 59 \in Range(s) \/ \E kw \in SqlKeywords : HasWord(s, kw)
          [] t = "nosql" -> \E op \in NoSqlOperators : Contains(ToLower(s), op)
          [] t = "xss" -> HasScriptTag(s) \/ \E m \in XssMarkers : Contains(ToLower(s), m)
          [] t = "command" ->
                \/ Contains(s, <<38,38>>)
                \/ Contains(s, <<124,124>>)
                \/ \E c \in ShellCommands : HasWord(s, c)
          [] t = "path" -> HasPathTraversal(s)
          [] t = "nul" -> 0 \in Range(s)}

checkForInjectionPatterns(value) ==
    LET threats == InjectionThreats(value)
    IN  [isSafe |-> threats = {}, threats |-> threats]

\* the fields that fail their grammar, in the order they are validated
FieldErrors(input, fields) ==
    {f \in fields : ~validateAgainstWhitelist(input[f], f).isValid}

validateRegistrationInput(input) ==
    LET errors == FieldErrors(input, {"username", "fullname", "idNumber", "accountNumber", "email"})
    IN  [isValid |-> errors = {}, errors |-> errors]

validateLoginInput(input) ==
    LET errors == FieldErrors(input, {"username", "accountNumber"})
    IN  [isValid |-> errors = {}, errors |-> errors]

-----------------------------------------------------------------------------
(* backend/models/User.js *)

\* the number of password hashes a user document keeps
HISTORY_LIMIT == 5

\* recoveryCode / recoveryCodeExpires of a document that has none
NoCode == ""
NoExpiry == -1

\* JavaScript Number(string) on a string of decimal digits with optional
\* surrounding white space
RECURSIVE DigitsValue(_)
DigitsValue(s) ==
    IF s = <<>> THEN 0 ELSE 10 * DigitsValue(SubSeq(s, 1, Len(s) - 1)) + (s[Len(s)] - 48)
Number(s) == DigitsValue(Trim(s))

\* a variant of addToPasswordHistory that never evicts
addToPasswordHistory_NoEviction(user, passwordHash, t) ==
    [user EXCEPT !.passwordHistory = Append(@, passwordHash), !.lastPasswordChange = t]

\* userSchema.methods.addToPasswordHistory: the document after push, shift and
\* the update of lastPasswordChange, as save() stores it
addToPasswordHistory(user, passwordHash, t) ==
    LET pushed == Append(user.passwordHistory, passwordHash)
        kept == IF Len(pushed) > HISTORY_LIMIT THEN Tail(pushed) ELSE pushed
    IN  [user EXCEPT !.passwordHistory = kept, !.lastPasswordChange = t]

\* User.findOne({field: value}): the _id of the first matching document, 0 for null
findOne(field, value) ==
    LET hits == {i \in 1..Len(users) : users[i][field] = value}
    IN  IF hits = {} THEN 0 ELSE CHOOSE i \in hits : \A j \in hits : i <= j

\* a variant of the recovery query without the condition on recoveryCodeExpires
findByRecoveryCode_NoExpiry(email, recoveryCode) ==
    LET hits == {i \in 1..Len(users) :
                    /\ users[i].email = email
                    /\ users[i].recoveryCode = recoveryCode}
    IN  IF hits = {} THEN 0 ELSE CHOOSE i \in hits : \A j \in hits : i <= j

\* User.findOne({email, recoveryCode, recoveryCodeExpires: {$gt: Date.now()}})
findByRecoveryCode(email, recoveryCode) ==
    LET hits == {i \in 1..Len(users) :
                    /\ users[i].email = email
                    /\ users[i].recoveryCode = recoveryCode
                    /\ users[i].recoveryCodeExpires # NoExpiry
                    /\ users[i].recoveryCodeExpires > now}
    IN  IF hits = {} THEN 0 ELSE CHOOSE i \in hits : \A j \in hits : i <= j

\* User.findById(userId)
findById(userId) == IF userId \in 1..Len(users) THEN userId ELSE 0

-----------------------------------------------------------------------------
(* backend/routes/auth.js *)

NoToken == [id |-> 0]

\* jwt.sign({id, email, username}, JWT_SECRET, {expiresIn: "1d"})
jwtSign(id, user) == [id |-> id, email |-> user.email, username |-> user.username]

\* res.status(status).json({message}) after the calls made so far
Reply(op, status, msg, calls) ==
    [op |-> op, status |-> status, msg |-> msg, calls |-> calls, token |-> NoToken,
     developmentOnly |-> NoCode]

\* a variant of POST /register that does not call validatePasswordStrength
register_NoStrengthCheck(req, hashOk) ==
    LET validation == validateRegistrationInput(req)
        injection == checkForInjectionPatterns(req.password)
        hashedPassword == hashPassword(req.password, hashCount + 1)
        newUser == [username |-> req.username,
                    fullname |-> req.fullname,
                    idNumber |-> req.idNumber,
                    accountType |-> "client",
                    accountNumber |-> Number(req.accountNumber),
                    email |-> req.email,
                    password |-> hashedPassword,
                    passwordHistory |-> <<hashedPassword>>,
                    lastPasswordChange |-> now,
                    recoveryCode |-> NoCode,
                    recoveryCodeExpires |-> NoExpiry]
        c1 == <<"validateRegistrationInput">>
        c2 == Append(c1, "checkForInjectionPatterns")
        c3 == c2
        c4 == Append(c3, "hashPassword")
    IN  IF \E f \in DOMAIN req : req[f] = <<>>
        THEN [res |-> Reply("register", 400, "All fields are required", <<>>), users |-> users]
        ELSE IF ~validation.isValid
        THEN [res |-> Reply("register", 400, "Input validation failed", c1), users |-> users]
        ELSE IF ~injection.isSafe
        THEN [res |-> Reply("register", 400, "Password contains prohibited patterns", c2),
              users |-> users]
        ELSE IF findOne("email", req.email) # 0
        THEN [res |-> Reply("register", 400, "Email already exists", c3), users |-> users]
        ELSE IF findOne("username", req.username) # 0
        THEN [res |-> Reply("register", 400, "Username already exists", c3), users |-> users]
        ELSE IF ~hashOk
        THEN [res |-> Reply("register", 500, "Password hashing failed", c4), users |-> users]
        ELSE [res |-> Reply("register", 201, "User created successfully", c4),
              users |-> Append(users, newUser)]

\* POST /register: the response and the collection it leaves
register(req, hashOk) ==
    LET validation == validateRegistrationInput(req)
        injection == checkForInjectionPatterns(req.password)
        strength == validatePasswordStrength(req.password)
        hashedPassword == hashPassword(req.password, hashCount + 1)
        newUser == [username |-> req.username,
                    fullname |-> req.fullname,
                    idNumber |-> req.idNumber,
                    accountType |-> "client",
                    accountNumber |-> Number(req.accountNumber),
                    email |-> req.email,
                    password |-> hashedPassword,
                    passwordHistory |-> <<hashedPassword>>,
                    lastPasswordChange |-> now,
                    recoveryCode |-> NoCode,
                    recoveryCodeExpires |-> NoExpiry]
        c1 == <<"validateRegistrationInput">>
        c2 == Append(c1, "checkForInjectionPatterns")
        c3 == Append(c2, "validatePasswordStrength")
        c4 == Append(c3, "hashPassword")
    IN  IF \E f \in DOMAIN req : req[f] = <<>>
        THEN [res |-> Reply("register", 400, "All fields are required", <<>>), users |-> users]
        ELSE IF ~validation.isValid
        THEN [res |-> Reply("register", 400, "Input validation failed", c1), users |-> users]
        ELSE IF ~injection.isSafe
        THEN [res |-> Reply("register", 400, "Password contains prohibited patterns", c2),
              users |-> users]
        ELSE IF ~strength.isValid
        THEN [res |-> Reply("register", 400, "Password does not meet security requirements", c3),
              users |-> users]
        ELSE IF findOne("email", req.email) # 0
        THEN [res |-> Reply("register", 400, "Email already exists", c3), users |-> users]
        ELSE IF findOne("username", req.username) # 0
        THEN [res |-> Reply("register", 400, "Username already exists", c3), users |-> users]
        ELSE IF ~hashOk
        THEN [res |-> Reply("register", 500, "Password hashing failed", c4), users |-> users]
        ELSE [res |-> Reply("register", 201, "User created successfully", c4),
              users |-> Append(users, newUser)]

\* POST /register from its start to the answer of User.findOne({email}):
\* the reply it ends with, or status 0 when the handler goes on
registerUntilEmailQuery(req) ==
    LET validation == validateRegistrationInput(req)
        injection == checkForInjectionPatterns(req.password)
        strength == validatePasswordStrength(req.password)
        c1 == <<"validateRegistrationInput">>
        c2 == Append(c1, "checkForInjectionPatterns")
        c3 == Append(c2, "validatePasswordStrength")
    IN  IF \E f \in DOMAIN req : req[f] = <<>>
        THEN Reply("register", 400, "All fields are required", <<>>)
        ELSE IF ~validation.isValid
        THEN Reply("register", 400, "Input validation failed", c1)
        ELSE IF ~injection.isSafe
        THEN Reply("register", 400, "Password contains prohibited patterns", c2)
        ELSE IF ~strength.isValid
        THEN Reply("register", 400, "Password does not meet security requirements", c3)
        ELSE IF findOne("email", req.email) # 0
        THEN Reply("register", 400, "Email already exists", c3)
        ELSE Reply("register", 0, "", c3)

\* POST /register at the answer of User.findOne({username})
registerAtUsernameQuery(req) ==
    IF findOne("username", req.username) # 0
    THEN Reply("register", 400, "Username already exists", <<>>)
    ELSE Reply("register", 0, "", <<>>)

\* the unique index on email refuses a second document with the same email;
\* the index on username is not unique
uniqueIndexRefuses(doc) == \E id \in 1..Len(users) : users[id].email = doc.email

\* POST /register from hashPassword to its reply
registerSave(req, hashOk) ==
    LET hashedPassword == hashPassword(req.password, hashCount + 1)
        newUser == [username |-> req.username,
                    fullname |-> req.fullname,
                    idNumber |-> req.idNumber,
                    accountType |-> "client",
                    accountNumber |-> Number(req.accountNumber),
                    email |-> req.email,
                    password |-> hashedPassword,
                    passwordHistory |-> <<hashedPassword>>,
                    lastPasswordChange |-> now,
                    recoveryCode |-> NoCode,
                    recoveryCodeExpires |-> NoExpiry]
        c1 == <<"hashPassword">>
    IN  IF ~hashOk
        THEN [res |-> Reply("register", 500, "Password hashing failed", c1), users |-> users]
        ELSE IF uniqueIndexRefuses(newUser)
        THEN [res |-> Reply("register", 500, "E11000 duplicate key error", c1),
              users |-> users]
        ELSE [res |-> Reply("register", 201, "User created successfully", c1),
              users |-> Append(users, newUser)]

\* a variant of POST /login that does not compare account numbers
login_NoAccountNumberCheck(req, fault) ==
    LET validation == validateLoginInput(req)
        injection == checkForInjectionPatterns(req.password)
        id == findOne("username", req.username)
        user == users[id]
        c1 == <<"validateLoginInput">>
        c2 == Append(c1, "checkForInjectionPatterns")
        c3 == Append(c2, "verifyPassword")
    IN  IF req.username = <<>> \/ req.accountNumber = <<>> \/ req.password = <<>>
        THEN Reply("login", 400, "All fields are required", <<>>)
        ELSE IF ~validation.isValid
        THEN Reply("login", 400, "Input validation failed", c1)
        ELSE IF ~injection.isSafe
        THEN Reply("login", 400, "Invalid credentials", c2)
        ELSE IF id = 0
        THEN Reply("login", 401, "Invalid credentials", c2)
        ELSE IF ~verifyPasswordCall(req.password, Stored(user.password), fault).value
        THEN Reply("login", 401, "Invalid credentials", c3)
        ELSE [Reply("login", 200, "Login successful", Append(c3, "jwt.sign"))
                EXCEPT !.token = jwtSign(id, user)]

\* POST /login; fault: bcrypt fails while verifyPassword re-derives the hash
login(req, fault) ==
    LET validation == validateLoginInput(req)
        injection == checkForInjectionPatterns(req.password)
        id == findOne("username", req.username)
        user == users[id]
        c1 == <<"validateLoginInput">>
        c2 == Append(c1, "checkForInjectionPatterns")
        c3 == Append(c2, "verifyPassword")
    IN  IF req.username = <<>> \/ req.accountNumber = <<>> \/ req.password = <<>>
        THEN Reply("login", 400, "All fields are required", <<>>)
        ELSE IF ~validation.isValid
        THEN Reply("login", 400, "Input validation failed", c1)
        ELSE IF ~injection.isSafe
        THEN Reply("login", 400, "Invalid credentials", c2)
        ELSE IF id = 0
        THEN Reply("login", 401, "Invalid credentials", c2)
        ELSE IF user.accountNumber # Number(req.accountNumber)
        THEN Reply("login", 401, "Invalid credentials", c2)
        ELSE IF ~verifyPasswordCall(req.password, Stored(user.password), fault).value
        THEN Reply("login", 401, "Invalid credentials", c3)
        ELSE [Reply("login", 200, "Login successful", Append(c3, "jwt.sign"))
                EXCEPT !.token = jwtSign(id, user)]

\* a variant of POST /change-password that saves the user before it checks reuse
changePassword_SavesBeforeReuseCheck(req, hashOk) ==
    LET id == findById(req.userId)
        user == users[id]
        strength == validatePasswordStrength(req.newPassword)
        hashedNewPassword == hashPassword(req.newPassword, hashCount + 1)
        saved == addToPasswordHistory([user EXCEPT !.password = hashedNewPassword],
                                      hashedNewPassword, now)
        c1 == <<"verifyPassword">>
        c2 == Append(c1, "validatePasswordStrength")
        c3 == Append(c2, "verifyPassword")
        c4 == Append(c3, "isPasswordUnique")
        c5 == Append(c4, "hashPassword")
    IN  IF req.userId = 0 \/ req.currentPassword = <<>> \/ req.newPassword = <<>>
        THEN [res |-> Reply("change-password", 400, "All fields are required", <<>>),
              users |-> users]
        ELSE IF id = 0
        THEN [res |-> Reply("change-password", 404, "User not found", <<>>), users |-> users]
        ELSE IF ~verifyPassword(req.currentPassword, user.password)
        THEN [res |-> Reply("change-password", 401, "Current password is incorrect", c1),
              users |-> users]
        ELSE IF ~strength.isValid
        THEN [res |-> Reply("change-password", 400,
                            "New password does not meet security requirements", c2),
              users |-> users]
        ELSE IF verifyPassword(req.newPassword, user.password)
        THEN [res |-> Reply("change-password", 400,
                            "New password must be different from current password", c3),
              users |-> users]
        ELSE IF ~isPasswordUnique(req.newPassword, HistoryArray(user.passwordHistory))
        THEN [res |-> Reply("change-password", 400,
                            "Cannot reuse any of your last 5 passwords", c4),
              users |-> [users EXCEPT ![id] = saved]]
        ELSE IF ~hashOk
        THEN [res |-> Reply("change-password", 500, "Password hashing failed", c5),
              users |-> users]
        ELSE [res |-> Reply("change-password", 200, "Password changed successfully", c5),
              users |-> [users EXCEPT ![id] = saved]]

\* POST /change-password
changePassword(req, hashOk) ==
    LET id == findById(req.userId)
        user == users[id]
        strength == validatePasswordStrength(req.newPassword)
        hashedNewPassword == hashPassword(req.newPassword, hashCount + 1)
        saved == addToPasswordHistory([user EXCEPT !.password = hashedNewPassword],
                                      hashedNewPassword, now)
        c1 == <<"verifyPassword">>
        c2 == Append(c1, "validatePasswordStrength")
        c3 == Append(c2, "verifyPassword")
        c4 == Append(c3, "isPasswordUnique")
        c5 == Append(c4, "hashPassword")
    IN  IF req.userId = 0 \/ req.currentPassword = <<>> \/ req.newPassword = <<>>
        THEN [res |-> Reply("change-password", 400, "All fields are required", <<>>),
              users |-> users]
        ELSE IF id = 0
        THEN [res |-> Reply("change-password", 404, "User not found", <<>>), users |-> users]
        ELSE IF ~verifyPassword(req.currentPassword, user.password)
        THEN [res |-> Reply("change-password", 401, "Current password is incorrect", c1),
              users |-> users]
        ELSE IF ~strength.isValid
        THEN [res |-> Reply("change-password", 400,
                            "New password does not meet security requirements", c2),
              users |-> users]
        ELSE IF verifyPassword(req.newPassword, user.password)
        THEN [res |-> Reply("change-password", 400,
                            "New password must be different from current password", c3),
              users |-> users]
        ELSE IF ~isPasswordUnique(req.newPassword, HistoryArray(user.passwordHistory))
        THEN [res |-> Reply("change-password", 400,
                            "Cannot reuse any of your last 5 passwords", c4),
              users |-> users]
        ELSE IF ~hashOk
        THEN [res |-> Reply("change-password", 500, "Password hashing failed", c5),
              users |-> users]
        ELSE [res |-> Reply("change-password", 200, "Password changed successfully", c5),
              users |-> [users EXCEPT ![id] = saved]]

\* POST /change-password with any JSON value as newPassword: a falsy value
\* fails the required-fields test, a truthy value that is no string makes
\* validatePasswordStrength throw, which the handler's catch answers with 500
changePasswordBody(req, hashOk) ==
    LET value == req.newPassword
        id == findById(req.userId)
        c1 == <<"verifyPassword">>
        c2 == Append(c1, "validatePasswordStrength")
    IN  IF Falsy(value)
        THEN changePassword([req EXCEPT !.newPassword = <<>>], hashOk)
        ELSE IF ~validatePasswordStrengthCall(value).threw
        THEN changePassword([req EXCEPT !.newPassword = value.chars], hashOk)
        ELSE IF req.userId = 0 \/ req.currentPassword = <<>>
        THEN [res |-> Reply("change-password", 400, "All fields are required", <<>>),
              users |-> users]
        ELSE IF id = 0
        THEN [res |-> Reply("change-password", 404, "User not found", <<>>), users |-> users]
        ELSE IF ~verifyPassword(req.currentPassword, users[id].password)
        THEN [res |-> Reply("change-password", 401, "Current password is incorrect", c1),
              users |-> users]
        ELSE [res |-> Reply("change-password", 500, "password.toLowerCase is not a function",
                            c2),
              users |-> users]

\* the lifetime of a recovery code, in milliseconds
RECOVERY_CODE_TTL == 15 * 60 * 1000

\* POST /recover-password; recoveryCode is the value drawn by Math.random()
recoverPassword(req, recoveryCode) ==
    LET id == findOne("email", req.email)
        expiresAt == now + RECOVERY_CODE_TTL
        sent == "If an account with that email exists, a recovery code has been sent"
    IN  IF req.email = <<>>
        THEN [res |-> Reply("recover-password", 400, "Email is required", <<>>),
              users |-> users]
        ELSE IF id = 0
        THEN [res |-> Reply("recover-password", 200, sent, <<>>), users |-> users]
        ELSE [res |-> [Reply("recover-password", 200, sent, <<>>)
                        EXCEPT !.developmentOnly = recoveryCode],
              users |-> [users EXCEPT ![id].recoveryCode = recoveryCode,
                                      ![id].recoveryCodeExpires = expiresAt]]

\* POST /recover-username: res.json({message, developmentOnly: {username}})
recoverUsername(req) ==
    LET id == findOne("email", req.email)
        sent == "If an account with that email exists, the username has been sent"
        reply(status, msg, username) ==
            [op |-> "recover-username", status |-> status, msg |-> msg, calls |-> <<>>,
             token |-> NoToken, developmentOnly |-> NoCode, username |-> username]
    IN  IF req.email = <<>> THEN reply(400, "Email is required", <<>>)
        ELSE IF id = 0 THEN reply(200, sent, <<>>)
        ELSE reply(200, sent, users[id].username)

\* POST /verify-recovery-code
verifyRecoveryCode(req) ==
    IF req.email = <<>> \/ req.recoveryCode = NoCode
    THEN Reply("verify-recovery-code", 400, "Email and recovery code are required", <<>>)
    ELSE IF findByRecoveryCode(req.email, req.recoveryCode) = 0
    THEN Reply("verify-recovery-code", 400, "Invalid or expired recovery code", <<>>)
    ELSE Reply("verify-recovery-code", 200, "Recovery code verified successfully", <<>>)

\* a variant of POST /reset-password that leaves the recovery code in place
resetPassword_KeepsCode(req, hashOk) ==
    LET id == findByRecoveryCode(req.email, req.recoveryCode)
        user == users[id]
        strength == validatePasswordStrength(req.newPassword)
        hashedPassword == hashPassword(req.newPassword, hashCount + 1)
        oldPasswordHash == user.password
        saved == addToPasswordHistory([user EXCEPT !.password = hashedPassword],
                                      oldPasswordHash, now)
        cleared == [saved EXCEPT !.recoveryCode = NoCode, !.recoveryCodeExpires = NoExpiry]
        c1 == <<"validatePasswordStrength">>
        c2 == Append(c1, "isPasswordUnique")
        c3 == Append(c2, "hashPassword")
    IN  IF req.email = <<>> \/ req.recoveryCode = NoCode \/ req.newPassword = <<>>
        THEN [res |-> Reply("reset-password", 400, "All fields are required", <<>>),
              users |-> users]
        ELSE IF id = 0
        THEN [res |-> Reply("reset-password", 400, "Invalid or expired recovery code", <<>>),
              users |-> users]
        ELSE IF ~strength.isValid
        THEN [res |-> Reply("reset-password", 400, "Password does not meet requirements", c1),
              users |-> users]
        ELSE IF ~isPasswordUnique(req.newPassword, HistoryArray(user.passwordHistory))
        THEN [res |-> Reply("reset-password", 400, "Password was used recently", c2),
              users |-> users]
        ELSE IF ~hashOk
        THEN [res |-> Reply("reset-password", 500, "An error occurred", c3), users |-> users]
        ELSE [res |-> Reply("reset-password", 200, "Password has been reset successfully", c3),
              users |-> [users EXCEPT ![id] = saved]]

\* POST /reset-password
resetPassword(req, hashOk) ==
    LET id == findByRecoveryCode(req.email, req.recoveryCode)
        user == users[id]
        strength == validatePasswordStrength(req.newPassword)
        hashedPassword == hashPassword(req.newPassword, hashCount + 1)
        oldPasswordHash == user.password
        saved == addToPasswordHistory([user EXCEPT !.password = hashedPassword],
                                      oldPasswordHash, now)
        cleared == [saved EXCEPT !.recoveryCode = NoCode, !.recoveryCodeExpires = NoExpiry]
        c1 == <<"validatePasswordStrength">>
        c2 == Append(c1, "isPasswordUnique")
        c3 == Append(c2, "hashPassword")
    IN  IF req.email = <<>> \/ req.recoveryCode = NoCode \/ req.newPassword = <<>>
        THEN [res |-> Reply("reset-password", 400, "All fields are required", <<>>),
              users |-> users]
        ELSE IF id = 0
        THEN [res |-> Reply("reset-password", 400, "Invalid or expired recovery code", <<>>),
              users |-> users]
        ELSE IF ~strength.isValid
        THEN [res |-> Reply("reset-password", 400, "Password does not meet requirements", c1),
              users |-> users]
        ELSE IF ~isPasswordUnique(req.newPassword, HistoryArray(user.passwordHistory))
        THEN [res |-> Reply("reset-password", 400, "Password was used recently", c2),
              users |-> users]
        ELSE IF ~hashOk
        THEN [res |-> Reply("reset-password", 500, "An error occurred", c3), users |-> users]
        ELSE [res |-> Reply("reset-password", 200, "Password has been reset successfully", c3),
              users |-> [users EXCEPT ![id] = cleared]]

-----------------------------------------------------------------------------
(* The auth router as a state machine *)

\* bounds of the model: password hashes computed in a run of Spec and of
\* SpecHistory, and clock ticks
MaxHashes == 3
MaxRecoveryHashes == 3
MaxHistoryHashes == 6
MaxTicks == 2

\* the clock advances in steps of half the lifetime of a recovery code
TickMs == RECOVERY_CODE_TTL \div 2

PwA == <<88,121,55,33,107,81,50,97>>     \* Xy7!kQ2a
PwB == <<88,121,55,33,107,81,50,101>>    \* Xy7!kQ2e
PwC == <<88,121,55,33,107,81,50,105>>    \* Xy7!kQ2i
PwD == <<88,121,55,33,107,81,50,109>>    \* Xy7!kQ2m
PwWeak == <<119,101,97,107>>             \* weak
PwInjection == <<88,121,55,33,107,81,50,59>>   \* Xy7!kQ2;
PwWeakInjection == <<108,115,59>>        \* ls;

StrongPasswords == {PwA, PwB, PwC, PwD}

Alice == [username |-> <<97,108,105,99,101,95,49>>,               \* alice_1
          fullname |-> <<65,108,105,99,101,32,65>>,               \* Alice A
          idNumber |-> <<49,50,51,52,53,54,55,56,57>>,            \* 123456789
          accountNumber |-> <<49,50,51,52,53,54,55,56>>,          \* 12345678
          email |-> <<97,108,105,99,101,64,120,46,105,111>>]      \* alice@x.io

Bob == [username |-> <<98,111,98,95,50,50>>,                      \* bob_22
        fullname |-> <<66,111,98,32,66>>,                         \* Bob B
        idNumber |-> <<57,56,55,54,53>>,                          \* 98765
        accountNumber |-> <<56,55,54,53,52,51,50,49>>,            \* 87654321
        email |-> <<98,111,98,64,120,46,105,111>>]                \* bob@x.io

\* a registration form with the given password
Form(p, pw) ==
    [username |-> p.username, fullname |-> p.fullname, idNumber |-> p.idNumber,
     accountNumber |-> p.accountNumber, email |-> p.email, password |-> pw]

\* request bodies of POST /register
RegisterRequests ==
    {Form(Alice, pw) : pw \in {PwA, PwWeak, PwInjection, PwWeakInjection, <<>>}}
    \cup {Form(Bob, PwB)}
    \cup {Form(p, PwB) : p \in {
            [Alice EXCEPT !.username = <<97,108>>],                          \* al
            [Alice EXCEPT !.fullname = <<>>],
            [Alice EXCEPT !.idNumber = <<49,50,51>>],                        \* 123
            [Alice EXCEPT !.accountNumber = <<49,50,51,52,53,54,55>>],       \* 1234567
            [Alice EXCEPT !.email = <<98,97,100,45,101,109,97,105,108>>],    \* bad-email
            [Bob EXCEPT !.email = Alice.email],
            [Bob EXCEPT !.username = Alice.username]}}
    \cup {Form([Alice EXCEPT !.username = <<97,108>>], PwWeakInjection)}

\* request bodies of POST /login
LoginRequests ==
    [username : {Alice.username, Bob.username, <<97,108>>},
     accountNumber : {Alice.accountNumber \o <<32>>, Bob.accountNumber},
     password : {PwA, PwB, PwInjection}]
    \cup {[username |-> <<97,108>>, accountNumber |-> <<49,50,51>>, password |-> PwInjection],
          [username |-> Alice.username, accountNumber |-> <<49,50,51>>, password |-> PwA],
          [username |-> Alice.username, accountNumber |-> Alice.accountNumber, password |-> <<>>]}

\* request bodies of POST /change-password
ChangePasswordRequests ==
    [userId : {1}, currentPassword : {PwA, PwB}, newPassword : {PwA, PwB, PwWeak}]
    \cup {[userId |-> id, currentPassword |-> PwA, newPassword |-> PwB] : id \in {0, 3}}

\* values of newPassword that are no strings
NonStrings == {JsonUndefined, JsonNull, JsonNumber(<<49,50,51,52,53,54,55,56>>), JsonTrue}

RecoveryCodes == {"100000", "999999"}

\* request bodies of POST /recover-password, each with the code Math.random() draws
RecoverPasswordDraws ==
    {<<[email |-> Alice.email], c>> : c \in RecoveryCodes}
    \cup {<<[email |-> Bob.email], "999999">>, <<[email |-> <<>>], "100000">>}

\* request bodies of POST /verify-recovery-code
VerifyRecoveryCodeRequests ==
    [email : {Alice.email, Bob.email}, recoveryCode : RecoveryCodes \cup {NoCode}]

\* request bodies of POST /reset-password
ResetPasswordRequests ==
    [email : {Alice.email}, recoveryCode : RecoveryCodes, newPassword : {PwA, PwC}]
    \cup {[email |-> Bob.email, recoveryCode |-> "100000", newPassword |-> PwC]}
    \cup {[email |-> Alice.email, recoveryCode |-> "100000", newPassword |-> pw] :
            pw \in {PwWeak, <<>>}}
    \cup {[email |-> Alice.email, recoveryCode |-> NoCode, newPassword |-> PwC]}

\* no recovery code has been issued
NoIssue == [code |-> NoCode, at |-> NoExpiry]

\* the passwords set for a user, the latest HISTORY_LIMIT of them
Remember(log, password) ==
    LET all == Append(log, password)
    IN  IF Len(all) > HISTORY_LIMIT THEN Tail(all) ELSE all

InitPayments ==
    /\ payments = <<>>
    /\ presp = [op |-> "none", status |-> 0, message |-> "", calls |-> <<>>, payments |-> <<>>]

\* no function of passwordSecurity.js has been called
NoCall == [fn |-> "none", password |-> <<>>, hash |-> MalformedHash, pepper |-> <<>>,
           result |-> FALSE]

InitPure ==
    /\ fin = [password |-> <<>>, pepper |-> <<>>, hash |-> MalformedHash,
              history |-> HistoryArray(<<>>)]
    /\ fout = NoCall

InitAuth ==
    /\ users = <<>>
    /\ now = 0
    /\ hashCount = 0
    /\ resp = Reply("none", 0, "", <<>>)
    /\ issued = <<>>
    /\ recent = <<>>
    /\ pending = <<>>

\* the server starts with PASSWORD_PEPPER set and an empty database
Init ==
    /\ PEPPER = EnvPepper
    /\ InitAuth
    /\ InitPayments
    /\ InitPure

RegisterOn(requests, cap) ==
    \E req \in requests, hashOk \in BOOLEAN :
      \E r \in {register(req, hashOk)} :
        LET created == r.res.status = 201
        IN  /\ created => hashCount < cap
            /\ users' = r.users
            /\ resp' = r.res
            /\ hashCount' = IF created THEN hashCount + 1 ELSE hashCount
            /\ recent' = IF created THEN Append(recent, <<req.password>>) ELSE recent
            /\ issued' = IF created THEN Append(issued, NoIssue) ELSE issued
            /\ UNCHANGED <<pending, PEPPER, now, payments, presp, fin, fout>>

LoginOn(requests) ==
    \E req \in requests, fault \in BOOLEAN :
        /\ resp' = login(req, fault)
        /\ UNCHANGED <<pending, PEPPER, users, now, hashCount, issued, recent, payments, presp, fin, fout>>

ChangePasswordOn(requests, others, cap) ==
    \E req \in requests, hashOk \in BOOLEAN :
     \E value \in {JsonString(req.newPassword)} \cup others :
      \E r \in {changePasswordBody([req EXCEPT !.newPassword = value], hashOk)} :
        LET changed == r.res.status = 200
        IN  /\ changed => hashCount < cap
            /\ users' = r.users
            /\ resp' = r.res
            /\ hashCount' = IF changed THEN hashCount + 1 ELSE hashCount
            /\ recent' = IF changed
                         THEN [recent EXCEPT ![req.userId] = Remember(@, req.newPassword)]
                         ELSE recent
            /\ UNCHANGED <<pending, PEPPER, now, issued, payments, presp, fin, fout>>

RecoverPasswordOn(draws) ==
    \E d \in draws :
      \E r \in {recoverPassword(d[1], d[2])} :
        LET id == findOne("email", d[1].email)
        IN  /\ users' = r.users
            /\ resp' = r.res
            /\ issued' = IF r.res.developmentOnly # NoCode
                         THEN [issued EXCEPT ![id] = [code |-> d[2], at |-> now]]
                         ELSE issued
            /\ UNCHANGED <<pending, PEPPER, now, hashCount, recent, payments, presp, fin, fout>>

RecoverUsernameOn(requests) ==
    \E req \in requests :
        /\ resp' = recoverUsername(req)
        /\ UNCHANGED <<pending, PEPPER, users, now, hashCount, issued, recent, payments, presp, fin, fout>>

VerifyRecoveryCodeOn(requests) ==
    \E req \in requests :
        /\ resp' = verifyRecoveryCode(req)
        /\ UNCHANGED <<pending, PEPPER, users, now, hashCount, issued, recent, payments, presp, fin, fout>>

ResetPasswordOn(requests, cap) ==
    \E req \in requests, hashOk \in BOOLEAN :
      \E r \in {resetPassword(req, hashOk)} :
        LET changed == r.res.status = 200
            id == findOne("email", req.email)
        IN  /\ changed => hashCount < cap
            /\ users' = r.users
            /\ resp' = r.res
            /\ hashCount' = IF changed THEN hashCount + 1 ELSE hashCount
            /\ recent' = IF changed
                         THEN [recent EXCEPT ![id] = Remember(@, req.newPassword)]
                         ELSE recent
            /\ UNCHANGED <<pending, PEPPER, now, issued, payments, presp, fin, fout>>

\* time passes between two requests
Tick ==
    /\ now < MaxTicks * TickMs
    /\ now' = now + TickMs
    /\ UNCHANGED <<pending, PEPPER, users, hashCount, resp, issued, recent, payments, presp, fin, fout>>

Register == RegisterOn(RegisterRequests, MaxHashes)
Login == LoginOn(LoginRequests)
ChangePassword == ChangePasswordOn(ChangePasswordRequests, NonStrings, MaxHashes)

Next ==
    \/ Register
    \/ Login
    \/ ChangePassword

Spec == Init /\ [][Next]_vars

-----------------------------------------------------------------------------
(* Password recovery: codes are issued, expire, and are redeemed *)

RecoveryRegister == RegisterOn({Form(Alice, PwA), Form(Bob, PwB)}, MaxRecoveryHashes)
RecoverPassword == RecoverPasswordOn(RecoverPasswordDraws)
VerifyRecoveryCode == VerifyRecoveryCodeOn(VerifyRecoveryCodeRequests)
RecoverUsername == RecoverUsernameOn({[email |-> e] : e \in {Alice.email, Bob.email, <<>>}})
ResetPassword == ResetPasswordOn(ResetPasswordRequests, MaxRecoveryHashes)

NextRecovery ==
    \/ RecoveryRegister
    \/ RecoverPassword
    \/ RecoverUsername
    \/ VerifyRecoveryCode
    \/ ResetPassword
    \/ Tick

SpecRecovery == Init /\ [][NextRecovery]_vars

-----------------------------------------------------------------------------
(* One account through many password changes: the history fills up *)

HistoryRegisterRequests == {Form(Alice, PwA), Form(Alice, PwWeak)}

HistoryChangeRequests ==
    [userId : {1}, currentPassword : StrongPasswords, newPassword : StrongPasswords]

HistoryResetRequests ==
    [email : {Alice.email}, recoveryCode : {"100000"}, newPassword : StrongPasswords \cup {PwWeak}]

HistoryRegister == RegisterOn(HistoryRegisterRequests, MaxHistoryHashes)
HistoryChangePassword == ChangePasswordOn(HistoryChangeRequests, {}, MaxHistoryHashes)
HistoryRecoverPassword == RecoverPasswordOn({<<[email |-> Alice.email], "100000">>})
HistoryResetPassword == ResetPasswordOn(HistoryResetRequests, MaxHistoryHashes)

NextHistory ==
    \/ HistoryRegister
    \/ HistoryChangePassword
    \/ HistoryRecoverPassword
    \/ HistoryResetPassword

SpecHistory == Init /\ [][NextHistory]_vars

(***************************************************************************)
(* Register requests served concurrently: a handler gives way at each      *)
(* await, so the queries and the save of two requests interleave.          *)
(***************************************************************************)
\* register requests in flight at once, and users saved
MaxInFlight == 2
MaxConcurrentSaves == 2

ConcurrentRegisterRequests ==
    {Form(Alice, PwA), Form(Alice, PwWeak),
     Form([Bob EXCEPT !.username = Alice.username], PwB),
     Form([Bob EXCEPT !.email = Alice.email], PwB)}

\* the sequence without its i-th element
Without(seq, i) == SubSeq(seq, 1, i - 1) \o SubSeq(seq, i + 1, Len(seq))

\* a request arrives and runs to the answer of the query by email
RegisterReceive ==
    \E req \in ConcurrentRegisterRequests :
      \E r \in {registerUntilEmailQuery(req)} :
        /\ Len(pending) < MaxInFlight
        /\ IF r.status = 0
           THEN /\ pending' = Append(pending, [req |-> req, at |-> "findOne({username})"])
                /\ UNCHANGED resp
           ELSE /\ resp' = r
                /\ UNCHANGED pending
        /\ UNCHANGED <<PEPPER, users, now, hashCount, issued, recent, payments, presp, fin, fout>>

\* the query by username answers
RegisterCheckUsername ==
    \E i \in 1..Len(pending) :
      \E r \in {registerAtUsernameQuery(pending[i].req)} :
        /\ pending[i].at = "findOne({username})"
        /\ IF r.status = 0
           THEN /\ pending' = [pending EXCEPT ![i].at = "save"]
                /\ UNCHANGED resp
           ELSE /\ resp' = r
                /\ pending' = Without(pending, i)
        /\ UNCHANGED <<PEPPER, users, now, hashCount, issued, recent, payments, presp, fin, fout>>

\* the password is hashed and the user saved
RegisterSave ==
    \E i \in 1..Len(pending), hashOk \in BOOLEAN :
      \E r \in {registerSave(pending[i].req, hashOk)} :
        LET created == r.res.status = 201
        IN  /\ pending[i].at = "save"
            /\ created => hashCount < MaxConcurrentSaves
            /\ users' = r.users
            /\ resp' = r.res
            /\ pending' = Without(pending, i)
            /\ hashCount' = IF created THEN hashCount + 1 ELSE hashCount
            /\ recent' = IF created THEN Append(recent, <<pending[i].req.password>>) ELSE recent
            /\ issued' = IF created THEN Append(issued, NoIssue) ELSE issued
            /\ UNCHANGED <<PEPPER, now, payments, presp, fin, fout>>

NextConcurrent ==
    \/ RegisterReceive
    \/ RegisterCheckUsername
    \/ RegisterSave

SpecConcurrent == Init /\ [][NextConcurrent]_vars

-----------------------------------------------------------------------------
(* backend/routes/payments.js *)

JWT_SECRET ==
    "8847ee188f91e31bcb45d6c4c6189c6ca948b9623a52b370d9715528ba253ce66838ce17f38af573320794b398565f6d04a80d062df3c2daa2a20d395d38df66"

\* one space-separated word of an Authorization header that is no JSON web token
Word(text) == [text |-> text, id |-> 0, key |-> "", exp |-> 0]

\* a JSON web token for user id, signed with key, expiring at exp
SignedToken(id, key, exp) == [text |-> "jwt", id |-> id, key |-> key, exp |-> exp]

\* req.headers.authorization: undefined, or the words between its spaces
NoHeader == [present |-> FALSE, words |-> <<>>]
Authorization(words) == [present |-> TRUE, words |-> words]

\* jwt.verify(token, secret): the signature matches and the token has not expired
jwtVerify(token, secret) ==
    /\ token.text = "jwt"
    /\ token.key = secret
    /\ now < token.exp

\* a variant of the middleware that decodes the token without verifying it
verifyToken_NoSignatureCheck(req) ==
    LET words == req.authorization.words
    IN  IF ~req.authorization.present \/ Len(words) < 2 \/ words[2].text = ""
        THEN [next |-> FALSE, status |-> 401,
              message |-> "Access denied. No token provided.", user |-> [id |-> 0]]
        ELSE [next |-> TRUE, status |-> 0, message |-> "", user |-> [id |-> words[2].id]]

\* the verifyToken middleware: whether next() is called, else the response sent
verifyToken(req) ==
    LET words == req.authorization.words
    IN  IF ~req.authorization.present \/ Len(words) < 2 \/ words[2].text = ""
        THEN [next |-> FALSE, status |-> 401,
              message |-> "Access denied. No token provided.", user |-> [id |-> 0]]
        ELSE IF ~jwtVerify(words[2], JWT_SECRET)
        THEN [next |-> FALSE, status |-> 400, message |-> "Invalid token.",
              user |-> [id |-> 0]]
        ELSE [next |-> TRUE, status |-> 0, message |-> "", user |-> [id |-> words[2].id]]

\* res.status(status).json(...) of the payments router: the handlers that ran
\* and the payment documents the body carries
PaymentReply(op, status, message, calls, body) ==
    [op |-> op, status |-> status, message |-> message, calls |-> calls, payments |-> body]

\* the response verifyToken sends itself; the collection is as it was
Denied(op, auth) ==
    [res |-> PaymentReply(op, auth.status, auth.message, <<"verifyToken">>, <<>>),
     payments |-> payments]

\* the transactionId the Payment model gives the n-th document: TXN1, TXN2, ...
TransactionId(n) == <<84, 88, 78, 48 + n>>

\* .sort({createdAt: -1}): newest first
Reverse(s) == [i \in 1..Len(s) |-> s[Len(s) + 1 - i]]

\* /^[A-Z]{3}$/
MatchesCurrency(s) == Len(s) = 3 /\ Range(s) \subseteq UpperChars

\* /^[A-Z]{6}[A-Z0-9]{2}([A-Z0-9]{3})?$/
MatchesSwift(s) ==
    /\ Len(s) \in {8, 11}
    /\ \A i \in 1..6 : s[i] \in UpperChars
    /\ \A i \in 7..Len(s) : s[i] \in (UpperChars \cup DigitChars)

DefaultBeneficiary == <<68,101,102,97,117,108,116,32,66,101,110,101,102,105,99,105,97,114,121>>
DefaultBank == <<68,101,102,97,117,108,116,32,66,97,110,107>>
DefaultAddress == <<68,101,102,97,117,108,116,32,65,100,100,114,101,115,115>>

OrDefault(value, default) == IF value = <<>> THEN default ELSE value

\* POST /create, after verifyToken
createPayment(req, user) ==
    LET b == req.body
        newPayment == [transactionId |-> TransactionId(Len(payments) + 1),
                       userId |-> user.id,
                       amount |-> b.amount,
                       currency |-> b.currency,
                       provider |-> "SWIFT",
                       beneficiaryAccountNumber |-> b.beneficiaryAccountNumber,
                       beneficiaryName |-> OrDefault(b.beneficiaryName, DefaultBeneficiary),
                       beneficiaryBankName |-> OrDefault(b.beneficiaryBankName, DefaultBank),
                       swiftCode |-> b.swiftCode,
                       beneficiaryAddress |-> OrDefault(b.beneficiaryAddress, DefaultAddress),
                       status |-> "completed",
                       updatedAt |-> now]
        calls == <<"verifyToken", "create">>
        refuse(message) ==
            [res |-> PaymentReply("create", 400, message, calls, <<>>), payments |-> payments]
    IN  IF b.amount = 0 \/ b.currency = <<>> \/ b.beneficiaryAccountNumber = <<>>
           \/ b.swiftCode = <<>>
        THEN refuse("Amount, currency, beneficiary account number, and SWIFT code are required")
        ELSE IF b.amount <= 0
        THEN refuse("Amount must be greater than 0")
        ELSE IF ~validateAgainstWhitelist(b.beneficiaryAccountNumber, "accountNumber").isValid
        THEN refuse("Invalid beneficiary account number")
        ELSE IF ~MatchesCurrency(Trim(b.currency))
        THEN refuse("Invalid currency code")
        ELSE IF \/ ~checkForInjectionPatterns(b.beneficiaryName).isSafe
                \/ ~checkForInjectionPatterns(b.beneficiaryBankName).isSafe
                \/ ~checkForInjectionPatterns(b.beneficiaryAddress).isSafe
        THEN refuse("Input validation failed")
        ELSE IF ~MatchesSwift(ToUpper(b.swiftCode))
        THEN refuse("Invalid SWIFT code format")
        ELSE [res |-> PaymentReply("create", 201, "Payment transaction created successfully",
                                   calls, <<newPayment>>),
              payments |-> Append(payments, newPayment)]

\* GET /my-payments, after verifyToken
myPayments(req, user) ==
    LET mine(p) == p.userId = user.id
    IN  [res |-> PaymentReply("my-payments", 200, "", <<"verifyToken", "my-payments">>,
                              Reverse(SelectSeq(payments, mine))),
         payments |-> payments]

\* the number of documents GET /received returns at most
RECEIVED_LIMIT == 10

\* GET /received, after verifyToken
received(req, user) ==
    LET completed(p) == p.status = "completed"
    IN  [res |-> PaymentReply("received", 200, "", <<"verifyToken", "received">>,
                              Take(Reverse(SelectSeq(payments, completed)),
                                   RECEIVED_LIMIT)),
         payments |-> payments]

\* Payment.findOne({transactionId, userId}): the index of the document, 0 for null
findPayment(transactionId, userId) ==
    LET hits == {i \in 1..Len(payments) :
                    /\ payments[i].transactionId = transactionId
                    /\ payments[i].userId = userId}
    IN  IF hits = {} THEN 0 ELSE CHOOSE i \in hits : \A j \in hits : i <= j

\* GET /:transactionId, after verifyToken
getPayment(req, user) ==
    LET transactionId == req.params.transactionId
        i == findPayment(transactionId, user.id)
        calls == <<"verifyToken", "get">>
    IN  IF \/ ~validateAgainstWhitelist(transactionId, "alphanumeric").isValid
           \/ ~checkForInjectionPatterns(transactionId).isSafe
        THEN [res |-> PaymentReply("get", 400, "Invalid transactionId", calls, <<>>),
              payments |-> payments]
        ELSE IF i = 0
        THEN [res |-> PaymentReply("get", 404, "Payment not found", calls, <<>>),
              payments |-> payments]
        ELSE [res |-> PaymentReply("get", 200, "", calls, <<payments[i]>>),
              payments |-> payments]

validStatuses == {"pending", "processing", "completed", "failed", "cancelled"}

\* PATCH /:transactionId/status, after verifyToken
updateStatus(req, user) ==
    LET transactionId == req.params.transactionId
        i == findPayment(transactionId, user.id)
        updated == [payments[i] EXCEPT !.status = req.body.status, !.updatedAt = now]
        calls == <<"verifyToken", "status">>
    IN  IF \/ ~validateAgainstWhitelist(transactionId, "alphanumeric").isValid
           \/ ~checkForInjectionPatterns(transactionId).isSafe
        THEN [res |-> PaymentReply("status", 400, "Invalid transactionId", calls, <<>>),
              payments |-> payments]
        ELSE IF req.body.status \notin validStatuses
        THEN [res |-> PaymentReply("status", 400, "Invalid status", calls, <<>>),
              payments |-> payments]
        ELSE IF i = 0
        THEN [res |-> PaymentReply("status", 404, "Payment not found", calls, <<>>),
              payments |-> payments]
        ELSE [res |-> PaymentReply("status", 200, "Payment status updated successfully",
                                   calls, <<updated>>),
              payments |-> [payments EXCEPT ![i] = updated]]

\* POST /complete-my-payments, after verifyToken
completeMyPayments(req, user) ==
    [res |-> PaymentReply("complete-my-payments", 200, "Payments marked as completed",
                          <<"verifyToken", "complete-my-payments">>, <<>>),
     payments |-> [i \in 1..Len(payments) |->
                     IF payments[i].userId = user.id /\ payments[i].status = "pending"
                     THEN [payments[i] EXCEPT !.status = "completed", !.updatedAt = now]
                     ELSE payments[i]]]

\* the six client routes: verifyToken, then the handler when it called next()
Endpoints == {"create", "my-payments", "received", "get", "status", "complete-my-payments"}

route(op, req) ==
    LET auth == verifyToken(req)
    IN  IF ~auth.next THEN Denied(op, auth)
        ELSE CASE op = "create" -> createPayment(req, auth.user)
               [] op = "my-payments" -> myPayments(req, auth.user)
               [] op = "received" -> received(req, auth.user)
               [] op = "get" -> getPayment(req, auth.user)
               [] op = "status" -> updateStatus(req, auth.user)
               [] op = "complete-my-payments" -> completeMyPayments(req, auth.user)

-----------------------------------------------------------------------------
(* The payments router as a state machine *)

\* bound of the model: payments created in a run
MaxPayments == 1

\* a session token lives one day
TOKEN_TTL == 24 * 60 * 60 * 1000

WordBearer == Word("Bearer")

\* Authorization headers: none; a scheme without token; an empty token; a word
\* that is no token; a token signed with another key; an expired token; the
\* tokens login issued to users 1 and 2
BadHeaders ==
    {NoHeader,
     Authorization(<<WordBearer>>),
     Authorization(<<WordBearer, Word("")>>),
     Authorization(<<WordBearer, Word("test-token")>>),
     Authorization(<<WordBearer, SignedToken(1, "another-secret", TOKEN_TTL)>>),
     Authorization(<<WordBearer, SignedToken(1, JWT_SECRET, 0)>>)}

GoodHeaders ==
    {Authorization(<<WordBearer, SignedToken(id, JWT_SECRET, TOKEN_TTL)>>) : id \in {1, 2}}

Headers == BadHeaders \cup GoodHeaders

Transfer ==
    [amount |-> 100,
     currency |-> <<85,83,68>>,                                       \* USD
     beneficiaryAccountNumber |-> <<49,50,51,52,53,54,55,56,57,48>>,  \* 1234567890
     beneficiaryName |-> <<66,111,98,32,66>>,                         \* Bob B
     beneficiaryBankName |-> <<>>,
     swiftCode |-> <<84,69,83,84,85,83,51,51>>,                       \* TESTUS33
     beneficiaryAddress |-> <<>>]

\* request bodies of POST /create
CreateBodies ==
    {Transfer,
     [Transfer EXCEPT !.amount = 0],
     [Transfer EXCEPT !.amount = -100],
     [Transfer EXCEPT !.beneficiaryAccountNumber = <<49,50,51>>],              \* 123
     [Transfer EXCEPT !.currency = <<117,115,100>>],                           \* usd
     [Transfer EXCEPT !.beneficiaryName = <<66,111,98,59>>],                   \* Bob;
     [Transfer EXCEPT !.swiftCode = <<73,78,86,65,76,73,68>>],                 \* INVALID
     [Transfer EXCEPT !.swiftCode = <<116,101,115,116,117,115,51,51,120,120,120>>]}  \* testus33xxx

\* :transactionId path parameters: two generated ids, a route name, a threat
TransactionIds ==
    {TransactionId(1), TransactionId(2), <<97,108,108>>, <<84,88,78,49,59>>}   \* all, TXN1;

NoBody == [status |-> "none"]
NoParams == [transactionId |-> <<>>]

\* a request: every body and path parameter under a valid token, one of each
\* under the other headers
RequestsWith(bodies, params, body, param) ==
    [authorization : GoodHeaders, body : bodies, params : params]
    \cup [authorization : BadHeaders, body : {body}, params : {param}]

CreateRequests == RequestsWith(CreateBodies, {NoParams}, Transfer, NoParams)

PlainRequests == RequestsWith({NoBody}, {NoParams}, NoBody, NoParams)

GetPaymentRequests ==
    RequestsWith({NoBody}, [transactionId : TransactionIds],
                 NoBody, [transactionId |-> TransactionId(1)])

UpdateStatusRequests ==
    RequestsWith([status : validStatuses \cup {"refunded"}], [transactionId : TransactionIds],
                 [status |-> "pending"], [transactionId |-> TransactionId(1)])

\* the requests each endpoint is sent
EndpointRequests(op) ==
    CASE op = "create" -> CreateRequests
      [] op = "get" -> GetPaymentRequests
      [] op = "status" -> UpdateStatusRequests
      [] OTHER -> PlainRequests

Create ==
    \E req \in CreateRequests :
      \E r \in {route("create", req)} :
        /\ Len(r.payments) <= MaxPayments
        /\ payments' = r.payments
        /\ presp' = r.res
        /\ UNCHANGED <<pending, PEPPER, users, now, hashCount, resp, issued, recent, fin, fout>>

MyPayments ==
    \E req \in PlainRequests :
      \E r \in {route("my-payments", req)} :
        /\ payments' = r.payments
        /\ presp' = r.res
        /\ UNCHANGED <<pending, PEPPER, users, now, hashCount, resp, issued, recent, fin, fout>>

Received ==
    \E req \in PlainRequests :
      \E r \in {route("received", req)} :
        /\ payments' = r.payments
        /\ presp' = r.res
        /\ UNCHANGED <<pending, PEPPER, users, now, hashCount, resp, issued, recent, fin, fout>>

GetPayment ==
    \E req \in GetPaymentRequests :
      \E r \in {route("get", req)} :
        /\ payments' = r.payments
        /\ presp' = r.res
        /\ UNCHANGED <<pending, PEPPER, users, now, hashCount, resp, issued, recent, fin, fout>>

UpdateStatus ==
    \E req \in UpdateStatusRequests :
      \E r \in {route("status", req)} :
        /\ payments' = r.payments
        /\ presp' = r.res
        /\ UNCHANGED <<pending, PEPPER, users, now, hashCount, resp, issued, recent, fin, fout>>

CompleteMyPayments ==
    \E req \in PlainRequests :
      \E r \in {route("complete-my-payments", req)} :
        /\ payments' = r.payments
        /\ presp' = r.res
        /\ UNCHANGED <<pending, PEPPER, users, now, hashCount, resp, issued, recent, fin, fout>>

NextPayments ==
    \/ Create
    \/ MyPayments
    \/ Received
    \/ GetPayment
    \/ UpdateStatus
    \/ CompleteMyPayments

SpecPayments == Init /\ [][NextPayments]_vars

-----------------------------------------------------------------------------
(* passwordSecurity.js on its own: hash, verify and isPasswordUnique are    *)
(* applied to passwords and to an array of hashes, across process restarts  *)

\* bound of the model: hashes computed in a run of SpecPassword
MaxPureHashes == 2

\* printable ASCII passwords of 8, 73 and 128 characters; the two of 73 differ
\* in their last character only
Pw73a == Repeat(32, 72) \o <<65>>
Pw73b == Repeat(32, 72) \o <<66>>
Pw128 == <<80,119,49,33>> \o Repeat(126, 124)

PurePasswords == {PwA, Pw73a, Pw73b, Pw128}

\* the process starts with PASSWORD_PEPPER set, or draws a temporary pepper
InitPassword ==
    /\ PEPPER \in {EnvPepper} \cup RandomPeppers
    /\ InitAuth
    /\ InitPayments
    /\ InitPure

\* a process without PASSWORD_PEPPER restarts and draws a new temporary pepper
Restart ==
    /\ PEPPER \in RandomPeppers
    /\ PEPPER' \in RandomPeppers \ {PEPPER}
    /\ fout' = NoCall
    /\ UNCHANGED <<pending, users, now, hashCount, resp, issued, recent, payments, presp, fin>>

HashPassword ==
    \E password \in PurePasswords :
      \E hash \in {hashPassword(password, hashCount + 1)} :
        /\ hashCount < MaxPureHashes
        /\ hashCount' = hashCount + 1
        /\ fin' = [fin EXCEPT !.password = password, !.pepper = PEPPER, !.hash = hash]
        /\ fout' = [NoCall EXCEPT !.fn = "hashPassword", !.password = password,
                                  !.hash = hash, !.pepper = PEPPER]
        /\ UNCHANGED <<pending, PEPPER, users, now, resp, issued, recent, payments, presp>>

\* the last hash computed is stored at the end of the array of hashes, which
\* keeps HISTORY_LIMIT of them
PushHistory ==
    /\ fin.hash # MalformedHash
    /\ LET doc == [passwordHistory |-> fin.history.items, lastPasswordChange |-> now]
       IN  fin' = [fin EXCEPT !.history =
                     HistoryArray(addToPasswordHistory(doc, fin.hash, now).passwordHistory)]
    /\ UNCHANGED <<pending, PEPPER, users, now, hashCount, resp, issued, recent, payments, presp, fout>>

VerifyPassword ==
    \E password \in PurePasswords :
        /\ fout' = [fn |-> "verifyPassword", password |-> password, hash |-> fin.hash,
                    pepper |-> PEPPER, result |-> verifyPassword(password, fin.hash)]
        /\ UNCHANGED <<pending, PEPPER, users, now, hashCount, resp, issued, recent, payments, presp, fin>>

IsPasswordUnique ==
    \E newPassword \in PurePasswords, passwordHistory \in {AbsentHistory, fin.history} :
        /\ fout' = [NoCall EXCEPT !.fn = "isPasswordUnique", !.password = newPassword,
                                  !.pepper = PEPPER,
                                  !.result = isPasswordUnique(newPassword, passwordHistory)]
        /\ UNCHANGED <<pending, PEPPER, users, now, hashCount, resp, issued, recent, payments, presp, fin>>

NextPassword ==
    \/ HashPassword
    \/ PushHistory
    \/ VerifyPassword
    \/ IsPasswordUnique
    \/ Restart

SpecPassword == InitPassword /\ [][NextPassword]_vars

-----------------------------------------------------------------------------
(* frontend utils/inputValidation.js, the client mirror of the validator *)

\* WHITELIST_PATTERNS[type].test(str)
ClientWhitelistTypes ==
    {"alphanumeric", "username", "email", "idNumber", "accountNumber", "address", "fullname"}

\* a variant of the patterns whose username needs 4 characters
WHITELIST_PATTERNS_LongerUsername(str, type) ==
    CASE type = "alphanumeric" ->
            Len(str) >= 1 /\ Range(str) \subseteq (WordChars \cup {45})
      [] type = "username" ->
            Len(str) >= 4 /\ Len(str) <= 20 /\ Range(str) \subseteq WordChars
      [] type = "email" -> MatchesEmail(str)
      [] type = "idNumber" ->
            Len(str) >= 5 /\ Len(str) <= 20 /\ Range(str) \subseteq DigitChars
      [] type = "accountNumber" ->
            Len(str) >= 8 /\ Len(str) <= 18 /\ Range(str) \subseteq DigitChars
      [] type = "address" ->
            /\ Len(str) >= 5 /\ Len(str) <= 100
            /\ Range(str) \subseteq (UpperChars \cup LowerChars \cup DigitChars
                                        \cup SpaceChars \cup {44, 46, 39, 45})
      [] type = "fullname" ->
            /\ Len(str) >= 2 /\ Len(str) <= 50
            /\ Range(str) \subseteq (UpperChars \cup LowerChars \cup SpaceChars
                                        \cup {46, 39, 45})
      [] OTHER -> FALSE

WHITELIST_PATTERNS(str, type) ==
    CASE type = "alphanumeric" ->
            Len(str) >= 1 /\ Range(str) \subseteq (WordChars \cup {45})
      [] type = "username" ->
            Len(str) >= 3 /\ Len(str) <= 20 /\ Range(str) \subseteq WordChars
      [] type = "email" -> MatchesEmail(str)
      [] type = "idNumber" ->
            Len(str) >= 5 /\ Len(str) <= 20 /\ Range(str) \subseteq DigitChars
      [] type = "accountNumber" ->
            Len(str) >= 8 /\ Len(str) <= 18 /\ Range(str) \subseteq DigitChars
      [] type = "address" ->
            /\ Len(str) >= 5 /\ Len(str) <= 100
            /\ Range(str) \subseteq (UpperChars \cup LowerChars \cup DigitChars
                                        \cup SpaceChars \cup {44, 46, 39, 45})
      [] type = "fullname" ->
            /\ Len(str) >= 2 /\ Len(str) <= 50
            /\ Range(str) \subseteq (UpperChars \cup LowerChars \cup SpaceChars
                                        \cup {46, 39, 45})
      [] OTHER -> FALSE

\* String(value || '')
Coerce(value) == IF Falsy(value) THEN <<>> ELSE value.chars

\* the error of a valid result (null)
NoError == ""

\* a variant of the client's validateAgainstWhitelist that does not trim
ClientValidateAgainstWhitelist_NoTrim(value, type) ==
    IF type \notin ClientWhitelistTypes
    THEN [error |-> "Unknown whitelist type: " \o type, isValid |-> FALSE]
    ELSE LET isValid == WHITELIST_PATTERNS(Coerce(value), type)
         IN  [error |-> IF isValid THEN NoError ELSE "Invalid " \o type, isValid |-> isValid]

\* the client's validateAgainstWhitelist(value, type)
ClientValidateAgainstWhitelist(value, type) ==
    IF type \notin ClientWhitelistTypes
    THEN [error |-> "Unknown whitelist type: " \o type, isValid |-> FALSE]
    ELSE LET isValid == WHITELIST_PATTERNS(Trim(Coerce(value)), type)
         IN  [error |-> IF isValid THEN NoError ELSE "Invalid " \o type, isValid |-> isValid]

\* a variant of sanitizeInput that trims before it removes characters
sanitizeInput_TrimFirst(value) ==
    LET kept(c) == c \notin {60, 62, 0}
    IN  SelectSeq(Trim(value), kept)

\* sanitizeInput on a string: '<', '>' and NUL removed, then trimmed
sanitizeInput(value) ==
    LET kept(c) == c \notin {60, 62, 0}
    IN  Trim(SelectSeq(value, kept))

(* The client views: what each sends the server for the form as typed *)

\* RegisterView.handleSubmit: whether the form passes the view's checks, and
\* the body it posts to /register
RegisterView_handleSubmit(formData) ==
    LET sanitized == [username |-> sanitizeInput(formData.username),
                      fullname |-> sanitizeInput(formData.fullname),
                      idNumber |-> sanitizeInput(formData.idNumber),
                      accountNumber |-> sanitizeInput(formData.accountNumber),
                      email |-> ToLower(sanitizeInput(formData.email)),
                      password |-> Trim(formData.password)]
        valid(field) ==
            ClientValidateAgainstWhitelist(JsonString(sanitized[field]), field).isValid
    IN  [body |-> sanitized,
         submitted |-> /\ \A field \in {"username", "fullname", "idNumber",
                                        "accountNumber", "email"} : valid(field)
                       /\ Len(sanitized.password) >= 8
                       /\ checkForInjectionPatterns(sanitized.password).isSafe]

\* RecoverPasswordView.handleResetPassword: the body it posts to /reset-password
RecoverPasswordView_handleResetPassword(formData) ==
    LET sanitizedEmail == ToLower(sanitizeInput(formData.email))
        sanitizedCode == sanitizeInput(formData.recoveryCode)
        sanitizedPassword == sanitizeInput(formData.newPassword)
        sanitizedConfirm == sanitizeInput(formData.confirmPassword)
    IN  [body |-> [email |-> sanitizedEmail, recoveryCode |-> sanitizedCode,
                   newPassword |-> sanitizedPassword],
         submitted |-> /\ ClientValidateAgainstWhitelist(JsonString(sanitizedEmail),
                                                         "email").isValid
                       /\ Len(sanitizedCode) = 6
                       /\ \A i \in 1..Len(sanitizedCode) : sanitizedCode[i] \in DigitChars
                       /\ sanitizedPassword = sanitizedConfirm
                       /\ Len(sanitizedPassword) >= 8
                       /\ checkForInjectionPatterns(sanitizedPassword).isSafe]

\* LoginView.handleSubmit: the body it posts to /login
LoginView_handleSubmit(formData) ==
    LET usernameSanitized == sanitizeInput(formData.username)
        accountSanitized == sanitizeInput(formData.accountNumber)
        passwordValue == formData.password
    IN  [body |-> [username |-> usernameSanitized, accountNumber |-> accountSanitized,
                   password |-> passwordValue],
         submitted |-> /\ ClientValidateAgainstWhitelist(JsonString(usernameSanitized),
                                                         "username").isValid
                       /\ ClientValidateAgainstWhitelist(JsonString(accountSanitized),
                                                         "accountNumber").isValid
                       /\ Len(passwordValue) >= 8
                       /\ checkForInjectionPatterns(passwordValue).isSafe]

-----------------------------------------------------------------------------
(* The password policy and the client validator on their own: each function *)
(* is applied to values a request body can carry                            *)

\* candidates: every combination of two uppercase letters, two lowercase
\* letters, two digits, two symbols, an ascending run, a repetition and a
\* filler of '~' and ' ' that belongs to no character class
Filler(n) == [i \in 1..n |-> IF i % 2 = 1 THEN 126 ELSE 32]
FillerLengths == {0, 6, 12, 16, 125}
Optional(piece) == {<<>>, piece}
Runs == {<<>>, <<101,70,103>>, <<52,53,54>>}            \* eFg, 456
Repetitions == {<<>>, <<32,32,32>>, <<122,122,122>>}    \* three spaces, zzz
Combinations ==
    {u \o l \o d \o s \o run \o rep \o Filler(n) :
        u \in Optional(<<81,88>>), l \in Optional(<<107,122>>),
        d \in Optional(<<55,50>>), s \in Optional(<<33,63>>),
        run \in Runs, rep \in Repetitions, n \in FillerLengths}

\* Password1! and a password that repeats a line feed three times
PwPassword1 == <<80,97,115,115,119,111,114,100,49,33>>
PwLineFeeds == <<88,121,55,33,107,81,10,10,10,50,109>>

Candidates ==
    Combinations \cup commonPasswords \cup {ToUpper(w) : w \in commonPasswords}
        \cup {PwPassword1, PwLineFeeds, PwA, PwB, PwC, PwD}

\* what a handler can pass for a password
JsonCandidates ==
    {JsonString(c) : c \in Candidates}
        \cup NonStrings

\* the server's validateAccountNumber, as far as backend/tests pins it down:
\* '123456' is valid, '012345' (starts with 0) is not
Digits123456 == <<49,50,51,52,53,54>>
Digits012345 == <<48,49,50,51,52,53>>
TestedAccountNumbers == {Digits123456, Digits012345}
validateAccountNumber(value) ==
    CASE value = Digits123456 -> [isValid |-> TRUE]
      [] value = Digits012345 -> [isValid |-> FALSE]

\* the call to make: the function, its value argument and what else it takes
Call(fn, value, type, credential, fault) ==
    [credential |-> credential, fault |-> fault, fn |-> fn, type |-> type, value |-> value]

\* no function has been applied yet
NoOutput == [fn |-> "none", threw |-> FALSE]

\* the password and the credential handed to verifyPassword: credentials of
\* PwA and PwB, a string that is no bcrypt hash, and undefined
VerifiedValues == {JsonString(PwA), JsonString(PwB), JsonString(<<>>), JsonUndefined}
Credentials ==
    {Stored(hashPassword(PwA, 1)), Stored(hashPassword(PwB, 2)), Stored(MalformedHash),
     AbsentCredential}

\* bound of the model: length of the strings handed to sanitizeInput
MaxSanitizeLen == 4

\* strings of '<', '>', NUL, space, tab and 'a', and values that are no strings
SanitizeChars == {60, 62, 0, 32, 9, 97}
SanitizeValues ==
    {JsonString(x) : x \in UNION {[1..n -> SanitizeChars] : n \in 0..MaxSanitizeLen}}
        \cup NonStrings

\* values handed to validateAgainstWhitelist: runs of digits and of letters
\* whose lengths lie on both sides of every bound of the patterns, a few
\* names, each also with white space around it and with a '!' appended
DigitRun(n) == [i \in 1..n |-> 48 + (i % 10)]
LetterRun(n) == [i \in 1..n |-> 97 + (i % 26)]
RunLengths == {0, 1, 2, 3, 4, 5, 7, 8, 18, 19, 20, 21, 50, 51, 100, 101}
Abc == <<97,98,99>>
Abc123 == <<97,98,99,95,49,50,51>>                    \* abc_123
WhitelistCores ==
    {DigitRun(n) : n \in RunLengths} \cup {LetterRun(n) : n \in RunLengths}
        \cup {Abc, Abc123, Alice.username, Alice.fullname, Alice.email,
              Alice.accountNumber, <<49,50,51,52,53,54,55>>,
              <<79,39,78,101,105,108>>,                               \* O'Neil
              <<49,50,32,77,97,105,110,32,83,116,44,32,52>>,          \* 12 Main St, 4
              <<97,98,45,99>>}                                        \* ab-c
WhitelistValues ==
    {JsonString(x) :
        x \in WhitelistCores \cup {<<32>> \o c \o <<9>> : c \in WhitelistCores}
                \cup {Append(c, 33) : c \in WhitelistCores}}
        \cup NonStrings
WhitelistTypes == ClientWhitelistTypes \cup {"password"}

\* passwords as a user types them: plain, between blanks, with an angle
\* bracket, with a statement separator, too short
TypedPasswords ==
    {PwA, <<32>> \o PwA \o <<32>>, PwA \o <<32, 32>>, <<60>> \o PwA, PwB \o <<62>> \o PwB,
     PwInjection, PwWeak, <<32, 32>> \o PwWeak \o <<32, 32, 32>>}

Views == {"RegisterView", "RecoverPasswordView", "LoginView"}

\* Alice's forms with the given password typed in
RegisterForm(password) == Form(Alice, password)
ResetForm(password) ==
    [email |-> Alice.email, recoveryCode |-> <<49,48,48,48,48,48>>,
     newPassword |-> password, confirmPassword |-> password]
LoginForm(password) ==
    [username |-> Alice.username, accountNumber |-> Alice.accountNumber,
     password |-> password]

Calls ==
    {Call("validatePasswordStrength", password, "", AbsentCredential, FALSE) :
        password \in JsonCandidates}
    \cup {Call("verifyPassword", password, "", credential, fault) :
            password \in VerifiedValues, credential \in Credentials, fault \in BOOLEAN}
    \cup {Call("sanitizeInput", value, "", AbsentCredential, FALSE) :
            value \in SanitizeValues}
    \cup {Call("validateAgainstWhitelist", value, type, AbsentCredential, FALSE) :
            value \in WhitelistValues, type \in WhitelistTypes}
    \cup {Call("validateAccountNumber", JsonString(value), "accountNumber",
                AbsentCredential, FALSE) : value \in TestedAccountNumbers}
    \cup {Call(view, JsonString(password), "", AbsentCredential, FALSE) :
            view \in Views, password \in TypedPasswords}

\* a call is about to be made
InitValidation ==
    /\ PEPPER = EnvPepper
    /\ InitAuth
    /\ InitPayments
    /\ fin \in Calls
    /\ fout = NoOutput

ValidatePasswordStrength ==
    \E r \in {validatePasswordStrengthCall(fin.value)} :
        /\ fin.fn = "validatePasswordStrength"
        /\ fout = NoOutput
        /\ fout' = [fn |-> fin.fn, threw |-> r.threw, value |-> r.value]
        /\ UNCHANGED <<pending, PEPPER, users, now, hashCount, resp, issued, recent, payments, presp,
                       fin>>

VerifyPasswordCall ==
    \E r \in {verifyPasswordCall(fin.value.chars, fin.credential, fin.fault)} :
        /\ fin.fn = "verifyPassword"
        /\ fout = NoOutput
        /\ fout' = [fn |-> fin.fn, threw |-> r.threw, value |-> r.value]
        /\ UNCHANGED <<pending, PEPPER, users, now, hashCount, resp, issued, recent, payments, presp,
                       fin>>

SanitizeInput ==
    /\ fin.fn = "sanitizeInput"
    /\ fout = NoOutput
    /\ fout' = [fn |-> fin.fn, threw |-> FALSE, value |-> sanitizeInput(Coerce(fin.value))]
    /\ UNCHANGED <<pending, PEPPER, users, now, hashCount, resp, issued, recent, payments, presp, fin>>

ValidateAgainstWhitelist ==
    /\ fin.fn = "validateAgainstWhitelist"
    /\ fout = NoOutput
    /\ fout' = [fn |-> fin.fn, threw |-> FALSE,
                value |-> ClientValidateAgainstWhitelist(fin.value, fin.type)]
    /\ UNCHANGED <<pending, PEPPER, users, now, hashCount, resp, issued, recent, payments, presp, fin>>

ValidateAccountNumber ==
    /\ fin.fn = "validateAccountNumber"
    /\ fout = NoOutput
    /\ fout' = [fn |-> fin.fn, threw |-> FALSE, value |-> validateAccountNumber(fin.value.chars)]
    /\ UNCHANGED <<pending, PEPPER, users, now, hashCount, resp, issued, recent, payments, presp, fin>>

RegisterViewSubmit ==
    \E r \in {RegisterView_handleSubmit(RegisterForm(fin.value.chars))} :
        /\ fin.fn = "RegisterView"
        /\ fout = NoOutput
        /\ fout' = [fn |-> fin.fn, threw |-> FALSE,
                    value |-> [password |-> r.body.password, submitted |-> r.submitted]]
        /\ UNCHANGED <<pending, PEPPER, users, now, hashCount, resp, issued, recent, payments,
                       presp, fin>>

RecoverPasswordViewReset ==
    \E r \in {RecoverPasswordView_handleResetPassword(ResetForm(fin.value.chars))} :
        /\ fin.fn = "RecoverPasswordView"
        /\ fout = NoOutput
        /\ fout' = [fn |-> fin.fn, threw |-> FALSE,
                    value |-> [password |-> r.body.newPassword, submitted |-> r.submitted]]
        /\ UNCHANGED <<pending, PEPPER, users, now, hashCount, resp, issued, recent, payments,
                       presp, fin>>

LoginViewSubmit ==
    \E r \in {LoginView_handleSubmit(LoginForm(fin.value.chars))} :
        /\ fin.fn = "LoginView"
        /\ fout = NoOutput
        /\ fout' = [fn |-> fin.fn, threw |-> FALSE,
                    value |-> [password |-> r.body.password, submitted |-> r.submitted]]
        /\ UNCHANGED <<pending, PEPPER, users, now, hashCount, resp, issued, recent, payments,
                       presp, fin>>

NextValidation ==
    \/ ValidatePasswordStrength
    \/ VerifyPasswordCall
    \/ SanitizeInput
    \/ ValidateAgainstWhitelist
    \/ ValidateAccountNumber
    \/ RegisterViewSubmit
    \/ RecoverPasswordViewReset
    \/ LoginViewSubmit

SpecValidation == InitValidation /\ [][NextValidation]_vars

-----------------------------------------------------------------------------
(* Claims about the password history (SpecHistory) *)

Last(s) == s[Len(s)]

\* C1: a change-password or reset-password request whose new password is one
\* of the user's 5 most recently set passwords (the current one included) is
\* rejected and leaves the stored documents unchanged.
C1_RecentPasswordRejected ==
    /\ \A req \in HistoryChangeRequests, hashOk \in BOOLEAN :
         LET id == findById(req.userId)
         IN  (id # 0 /\ req.newPassword \in Range(recent[id]))
                => \E r \in {changePassword(req, hashOk)} :
                        r.res.status # 200 /\ r.users = users
    /\ \A req \in HistoryResetRequests, hashOk \in BOOLEAN :
         LET id == findOne("email", req.email)
         IN  (id # 0 /\ req.newPassword \in Range(recent[id]))
                => \E r \in {resetPassword(req, hashOk)} :
                        r.res.status # 200 /\ r.users = users

\* C2: a passwordHistory never holds more than 5 entries, and
\* addToPasswordHistory on a history of 5 drops exactly the oldest entry,
\* keeps the other four in order and puts the new hash last.
C2_HistoryIsFifoOfFive ==
    \A i \in 1..Len(users) :
        LET history == users[i].passwordHistory
        IN  /\ Len(history) <= 5
            /\ Len(history) = 5 =>
                 \A h \in {users[i].password} \cup
                          {hashPassword(pw, hashCount + 1) : pw \in StrongPasswords} :
                    \E after \in {addToPasswordHistory(users[i], h, now).passwordHistory} :
                        /\ Len(after) = 5
                        /\ after[5] = h
                        /\ \A k \in 1..4 : after[k] = history[k + 1]

\* C2 witness: a sixth hash has been pushed onto a history that was full
C2_Witness ==
    /\ Len(users) = 1
    /\ hashCount >= 6
    /\ Len(users[1].passwordHistory) = 5
    /\ resp.op \in {"change-password", "reset-password"}
    /\ resp.status = 200

\* C3: right after a successful change-password or reset-password the user's
\* current credential is the last entry of passwordHistory.
C3_CurrentCredentialIsLastOfHistory ==
    (resp.op \in {"change-password", "reset-password"} /\ resp.status = 200)
        => \A i \in 1..Len(users) : Last(users[i].passwordHistory) = users[i].password

-----------------------------------------------------------------------------
(* Claims about login and registration (Spec) *)

IsPrefix(a, b) == Len(a) <= Len(b) /\ SubSeq(b, 1, Len(a)) = a

\* C4: login issues a token only when a user with the given username exists,
\* the submitted account number equals the stored one and verify(password,
\* stored credential) is true; whitelist validation and the injection check
\* run before verify; every other outcome carries no token.
C4_TokenOnlyForVerifiedLogin ==
    /\ \A req \in LoginRequests, fault \in BOOLEAN :
         \E r \in {login(req, fault)} :
           LET id == findOne("username", req.username)
           IN  /\ r.token # NoToken <=> r.status = 200
               /\ r.token # NoToken =>
                    /\ id # 0
                    /\ r.token.id = id
                    /\ users[id].accountNumber = Number(req.accountNumber)
                    /\ verifyPassword(req.password, users[id].password)
               /\ (\E k \in 1..Len(r.calls) : r.calls[k] = "verifyPassword") =>
                    /\ IsPrefix(<<"validateLoginInput", "checkForInjectionPatterns",
                                  "verifyPassword">>, r.calls)
                    /\ validateLoginInput(req).isValid
                    /\ checkForInjectionPatterns(req.password).isSafe
    /\ resp.op = "login" => (resp.token # NoToken <=> resp.status = 200)

\* C4 witness: a login has been answered with a token
C4_Witness ==
    /\ resp.op = "login"
    /\ resp.token # NoToken
    /\ Len(users) = 2

-----------------------------------------------------------------------------
(* Claims about password recovery (SpecRecovery) *)

\* C6: verify-recovery-code and reset-password succeed only with the code most
\* recently issued by recover-password for that email, and only while fewer
\* than 15 minutes have passed since it was issued.
C6_OnlyLatestUnexpiredCode ==
    /\ \A req \in VerifyRecoveryCodeRequests :
         LET id == findOne("email", req.email)
         IN  verifyRecoveryCode(req).status = 200 =>
                /\ id # 0
                /\ issued[id].code = req.recoveryCode
                /\ now - issued[id].at < 15 * 60 * 1000
    /\ \A req \in ResetPasswordRequests, hashOk \in BOOLEAN :
         LET id == findOne("email", req.email)
         IN  resetPassword(req, hashOk).res.status = 200 =>
                /\ id # 0
                /\ issued[id].code = req.recoveryCode
                /\ now - issued[id].at < 15 * 60 * 1000

\* C6 witness: a code was replaced by a later one, time has passed, and a
\* reset with the later code has succeeded
C6_Witness ==
    /\ resp.op = "reset-password"
    /\ resp.status = 200
    /\ \E i \in 1..Len(users) :
         /\ issued[i].code = "999999"
         /\ issued[i].at > 0
         /\ now > issued[i].at
         /\ users[i].recoveryCode = NoCode

-----------------------------------------------------------------------------
(* Claims about the payments router (SpecPayments) *)

\* the place of a status in the workflow pending -> processing -> terminal
StatusRank(status) ==
    CASE status = "pending" -> 1
      [] status = "processing" -> 2
      [] OTHER -> 3

\* C7: a payment's status follows pending -> processing -> completed / failed /
\* cancelled: a payment that is created starts as pending, and no step moves a
\* payment backwards in this order or out of completed, failed or cancelled.
C7_StatusFollowsWorkflow ==
    [][/\ Len(payments') > Len(payments) => Last(payments').status = "pending"
       /\ \A i \in 1..Len(payments) :
            \/ payments'[i].status = payments[i].status
            \/ StatusRank(payments'[i].status) > StatusRank(payments[i].status)]_vars

\* C8: on each of the six client payment endpoints a request without a valid
\* token is answered by verifyToken alone (401 when the Authorization header is
\* missing, an error status otherwise): the handler does not run, the answer
\* carries no payment and the collection is unchanged.
C8_NoTokenNoHandler ==
    \A op \in Endpoints :
      \A req \in EndpointRequests(op) :
        LET header == req.authorization
            valid == /\ header.present
                     /\ Len(header.words) >= 2
                     /\ jwtVerify(header.words[2], JWT_SECRET)
        IN  ~valid =>
               \E r \in {route(op, req)} :
                  /\ r.res.status \in {400, 401}
                  /\ ~header.present => r.res.status = 401
                  /\ r.res.calls = <<"verifyToken">>
                  /\ r.res.payments = <<>>
                  /\ r.payments = payments

\* C8 witness: with a payment stored, a request whose token is signed with
\* another key has been turned away
C8_Witness ==
    /\ Len(payments) = 1
    /\ presp.calls = <<"verifyToken">>
    /\ presp.status = 400
    /\ presp.op = "status"

-----------------------------------------------------------------------------
(* Claims about passwordSecurity.js (SpecPassword) *)

\* C9: isPasswordUnique(candidate, history) is true exactly when history is
\* absent or empty or verifyPassword(candidate, h) is false for every entry h;
\* it is false when candidate is a password whose hash is an entry of history.
C9_UniqueIffNoEntryVerifies ==
    \A candidate \in PurePasswords, history \in {AbsentHistory, fin.history} :
        /\ isPasswordUnique(candidate, history) <=>
              \/ history.absent
              \/ Len(history.items) = 0
              \/ \A k \in 1..Len(history.items) : ~verifyPassword(candidate, history.items[k])
        /\ (\E k \in 1..Len(history.items) :
                history.items[k] = hashPassword(candidate, history.items[k].salt))
              => ~isPasswordUnique(candidate, history)

\* C9 witness: isPasswordUnique has answered false on an array of 5 hashes
\* whose first entry is not the hash of the candidate
C9_Witness ==
    /\ fout.fn = "isPasswordUnique"
    /\ ~fout.result
    /\ Len(fin.history.items) = 5
    /\ ~verifyPassword(fout.password, fin.history.items[1])

\* C10: verifyPassword(p, hashPassword(p)) is true for every printable ASCII
\* password p of 8 to 128 characters, the pepper being the same at both calls.
C10_VerifyAcceptsOwnHash ==
    /\ \A p \in PurePasswords :
         /\ Len(p) \in 8..128
         /\ Range(p) \subseteq 32..126
         /\ verifyPassword(p, hashPassword(p, hashCount + 1))
    /\ (/\ fout.fn = "verifyPassword"
        /\ fout.hash = fin.hash
        /\ fout.password = fin.password
        /\ fout.pepper = fin.pepper) => fout.result

\* C10 witness: a password of 128 characters has been hashed and then verified
\* under a temporary pepper
C10_Witness ==
    /\ fout.fn = "verifyPassword"
    /\ fout.result
    /\ fout.hash = fin.hash
    /\ fout.password = fin.password
    /\ Len(fin.password) = 128
    /\ fout.pepper = fin.pepper
    /\ PEPPER \in RandomPeppers

\* C11: verifyPassword(p, hashPassword(q)) is false for all passwords p # q of
\* 8 to 128 characters with sanitizeInput(p) # sanitizeInput(q).
C11_DistinctSecretsNeverVerify ==
    \A p \in PurePasswords, q \in PurePasswords :
        (/\ p # q
         /\ sanitizeInput(p) # sanitizeInput(q)
         /\ Len(p) \in 8..128
         /\ Len(q) \in 8..128)
            => ~verifyPassword(p, hashPassword(q, hashCount + 1))


-----------------------------------------------------------------------------
(* Claims about the password policy and the validator (SpecValidation) *)

\* the nine rules as the policy states them, on a string
TooShort(s) == Len(s) < 8
TooLong(s) == Len(s) > 128
LacksUpper(s) == \A i \in 1..Len(s) : s[i] \notin 65..90
LacksLower(s) == \A i \in 1..Len(s) : s[i] \notin 97..122
LacksDigit(s) == \A i \in 1..Len(s) : s[i] \notin 48..57
LacksSymbol(s) == \A i \in 1..Len(s) : s[i] \notin SpecialChars
IsCommon(s) == \E w \in commonPasswords : ToLower(s) = w
HasAscendingRun(s) ==
    \E i \in 1..(Len(s) - 2) :
        \E a \in (97..120) \cup (48..55) :
            /\ ToLowerChar(s[i]) = a
            /\ ToLowerChar(s[i + 1]) = a + 1
            /\ ToLowerChar(s[i + 2]) = a + 2
HasThreeIdentical(s) ==
    \E i \in 1..(Len(s) - 2) : s[i] = s[i + 1] /\ s[i + 1] = s[i + 2]

RuleTable(s) ==
    <<  <<MsgMinLength, TooShort(s)>>, <<MsgMaxLength, TooLong(s)>>,
        <<MsgUpper, LacksUpper(s)>>, <<MsgLower, LacksLower(s)>>,
        <<MsgDigit, LacksDigit(s)>>, <<MsgSpecial, LacksSymbol(s)>>,
        <<MsgCommon, IsCommon(s)>>, <<MsgSequential, HasAscendingRun(s)>>,
        <<MsgRepeated, HasThreeIdentical(s)>>  >>

\* C12: the message of each of the nine rules is in errors if and only if the
\* candidate violates that rule, whatever the other rules yield, and isValid
\* is true if and only if errors is empty.
C12_EachRuleDecidesItsMessage ==
    (fout.fn = "validatePasswordStrength" /\ ~fout.threw) =>
        LET s == fin.value.chars
            rules == RuleTable(s)
        IN  /\ \A k \in 1..Len(rules) :
                    (rules[k][1] \in Range(fout.value.errors)) <=> rules[k][2]
            /\ fout.value.isValid <=> (fout.value.errors = <<>>)

\* C13: validatePasswordStrength("Password1!") is invalid, and the rule that
\* rejects it is the common-password rule.
C13_Password1IsCommon ==
    (fout.fn = "validatePasswordStrength" /\ fin.value = JsonString(PwPassword1)) =>
        /\ ~fout.threw
        /\ ~fout.value.isValid
        /\ MsgCommon \in Range(fout.value.errors)

\* the score of a candidate as the policy states it
ClassPoints(s) ==
    (IF LacksLower(s) THEN 0 ELSE 1) + (IF LacksUpper(s) THEN 0 ELSE 1)
        + (IF LacksDigit(s) THEN 0 ELSE 1) + (IF LacksSymbol(s) THEN 0 ELSE 1)
LengthPoints(s) ==
    (IF Len(s) >= 8 THEN 1 ELSE 0) + (IF Len(s) >= 12 THEN 1 ELSE 0)
        + (IF Len(s) >= 16 THEN 1 ELSE 0)
Score(s) ==
    LengthPoints(s) + ClassPoints(s)
        + (IF Len(s) >= 12 /\ ClassPoints(s) = 4 THEN 1 ELSE 0)
Level(score) ==
    IF score <= 3 THEN "weak"
    ELSE IF score <= 5 THEN "medium"
    ELSE IF score <= 6 THEN "strong"
    ELSE "very-strong"

\* C14: the strength reported for a candidate is the level of its score: one
\* point each for length >= 8, >= 12 and >= 16, one per character class
\* present, one more when the length is >= 12 and all four classes are present;
\* score <= 3 is weak, <= 5 medium, <= 6 strong, above that very-strong.
C14_StrengthIsLevelOfScore ==
    (fout.fn = "validatePasswordStrength" /\ ~fout.threw) =>
        fout.value.strength = Level(Score(fin.value.chars))

\* a candidate of 12 to 15 characters with all four classes has been rated
\* (score 7, reached only through the bonus point)
C14_Witness ==
    /\ fout.fn = "validatePasswordStrength"
    /\ ~fout.threw
    /\ Len(fin.value.chars) \in 12..15
    /\ ClassPoints(fin.value.chars) = 4
    /\ fout.value.strength = "very-strong"

\* the credential was derived from this password under the current pepper
DerivedFrom(credential, password) ==
    /\ ~credential.absent
    /\ credential.hash # MalformedHash
    /\ credential.hash = hashPassword(password, credential.hash.salt)

\* C16: verifyPassword never throws, and returns false for a mismatch, for a
\* malformed credential and for an absent credential.
C16_VerifyNeverThrows ==
    fout.fn = "verifyPassword" =>
        /\ ~fout.threw
        /\ ~DerivedFrom(fin.credential, fin.value.chars) => fout.value = FALSE

\* verifyPassword has been called without a credential and has returned false
C16_Witness ==
    /\ fout.fn = "verifyPassword"
    /\ fin.credential.absent
    /\ ~fin.fault
    /\ ~fout.threw
    /\ fout.value = FALSE

\* C18: sanitizeInput is idempotent: applied to its own result it returns that
\* result, which holds no '<', '>' or NUL and no leading or trailing whitespace.
C18_SanitizeIsIdempotent ==
    fout.fn = "sanitizeInput" =>
        /\ sanitizeInput(Coerce(JsonString(fout.value))) = fout.value
        /\ \A i \in 1..Len(fout.value) : fout.value[i] \notin {60, 62, 0}
        /\ fout.value = Trim(fout.value)

\* an input with whitespace between a removed character and its end has been
\* sanitized, and the result differs from the input
C18_Witness ==
    /\ fout.fn = "sanitizeInput"
    /\ fin.value = JsonString(<<32, 60, 32, 97>>)
    /\ fout.value = <<97>>

\* the grammars of username, accountNumber and idNumber as the validator
\* states them
AllIn(str, lo, hi, chars) ==
    /\ Len(str) >= lo
    /\ Len(str) <= hi
    /\ \A i \in 1..Len(str) : str[i] \in chars
Grammar(str, type) ==
    CASE type = "username" -> AllIn(str, 3, 20, (65..90) \cup (97..122) \cup (48..57) \cup {95})
      [] type = "accountNumber" -> AllIn(str, 8, 18, 48..57)
      [] type = "idNumber" -> AllIn(str, 5, 20, 48..57)

C20_AbcIsTooShort ==
    (fout.fn = "validateAgainstWhitelist" /\ fin.type = "username") =>
        /\ fin.value = JsonString(Abc) => ~fout.value.isValid
        /\ fin.value = JsonString(Abc123) => fout.value.isValid

\* C20, amended: "abc" has the 3 characters a username needs and is valid, as
\* is "abc_123"; a username is too short below 3 characters.
C20_AbcIsValid ==
    (fout.fn = "validateAgainstWhitelist" /\ fin.type = "username"
        /\ fin.value.type = "string") =>
        /\ fin.value.chars \in {Abc, Abc123} => fout.value.isValid
        /\ Len(Trim(fin.value.chars)) < 3 => ~fout.value.isValid

\* "abc" has been validated as a username and accepted
C20_Witness ==
    /\ fout.fn = "validateAgainstWhitelist"
    /\ fin.type = "username"
    /\ fin.value = JsonString(Abc)
    /\ fout.value.isValid
    /\ fout.value.error = NoError

-----------------------------------------------------------------------------
(* Claims about failures in the handlers (Spec) *)

\* the bodies of POST /change-password, newPassword being any JSON value
ChangePasswordBodies ==
    {[req EXCEPT !.newPassword = value] :
        req \in ChangePasswordRequests, value \in NonStrings}
    \cup {[req EXCEPT !.newPassword = JsonString(req.newPassword)] :
            req \in ChangePasswordRequests}

\* C15: validatePasswordStrength never raises, so whatever the new password of
\* a change-password request is (empty, absent, not a string), the answer is
\* no 5xx as long as hashing succeeds.
C15_BadPasswordIsNever5xx ==
    \A req \in ChangePasswordBodies :
        changePasswordBody(req, TRUE).res.status < 500

\* C17: a failure of the hash derivation reaches the client as an operational
\* error of its own, when hashing (register) and when verifyPassword re-derives
\* the hash (login); login never answers 'Invalid credentials' because of it.
C17_DerivationFailureIsOperational ==
    /\ \A req \in RegisterRequests :
         \E r \in {register(req, FALSE)} :
            (\E k \in 1..Len(r.res.calls) : r.res.calls[k] = "hashPassword") =>
                /\ r.res.status >= 500
                /\ r.users = users
    /\ \A req \in LoginRequests :
         \E r \in {login(req, TRUE)} :
            (\E k \in 1..Len(r.calls) : r.calls[k] = "verifyPassword") =>
                /\ r.status >= 500
                /\ r.msg # "Invalid credentials"

-----------------------------------------------------------------------------
(* Claims about the two validators (SpecValidation) *)

\* C21: validateAgainstWhitelist with a field name outside the closed set
\* fails with an error of its own kind; it returns no ordinary invalid result.
C21_UnknownFieldIsConfigurationError ==
    (fout.fn = "validateAgainstWhitelist" /\ fin.type \notin ClientWhitelistTypes) =>
        fout.threw

\* C22: the server's validator and the client's validator return the same
\* isValid for the same value of the same field, account numbers included.
C22_ClientAndServerAgree ==
    fout.fn = "validateAccountNumber" =>
        fout.value.isValid = ClientValidateAgainstWhitelist(fin.value, fin.type).isValid

-----------------------------------------------------------------------------
(* Claims about the cost of isPasswordUnique (SpecPassword) *)

\* C23: isPasswordUnique calls verifyPassword once for every entry of the
\* history on every call, also when an earlier entry has already matched.
C23_EveryEntryIsVerified ==
    \A candidate \in PurePasswords :
        isPasswordUniqueCalls(candidate, fin.history) = Len(fin.history.items)

-----------------------------------------------------------------------------
(* Claims about the recovery flow (SpecRecovery) *)

\* the emails a recovery request can carry: Alice's and Bob's, each registered
\* in some states and not in others
RecoveryEmails == {Alice.email, Bob.email}

\* C24: the answers of recover-password and of recover-username are the same,
\* status and body, whether or not an account with the submitted email exists.
C24_RecoveryHidesExistence ==
    \A known \in RecoveryEmails, unknown \in RecoveryEmails, code \in RecoveryCodes :
        (findOne("email", known) # 0 /\ findOne("email", unknown) = 0) =>
            /\ recoverPassword([email |-> known], code).res
                 = recoverPassword([email |-> unknown], code).res
            /\ recoverUsername([email |-> known]) = recoverUsername([email |-> unknown])

\* a user without a stored code: no code passes verify-recovery-code or
\* reset-password for that user
ClearedCodeOpensNothing ==
    \A id \in 1..Len(users), code \in RecoveryCodes :
        users[id].recoveryCode = NoCode =>
            /\ verifyRecoveryCode([email |-> users[id].email,
                                   recoveryCode |-> code]).status = 400
            /\ \A pw \in StrongPasswords :
                resetPassword([email |-> users[id].email, recoveryCode |-> code,
                               newPassword |-> pw], TRUE).res.status = 400

\* a step in which reset-password succeeds for a user clears that user's code
\* and expiry
ResetClearsCode ==
    \A id \in 1..Len(users) :
        (/\ resp'.op = "reset-password"
         /\ resp'.status = 200
         /\ users'[id].password # users[id].password) =>
            /\ users'[id].recoveryCode = NoCode
            /\ users'[id].recoveryCodeExpires = NoExpiry

\* C25: a recovery code authorises one reset at most: a successful
\* reset-password clears the stored code and its expiry, and as long as no new
\* code is stored, verify-recovery-code and reset-password fail with any code.
C25_CodeIsSingleUse == []ClearedCodeOpensNothing /\ [][ResetClearsCode]_vars

\* a code was issued to a user, a reset has cleared it, and a further
\* reset-password has been refused
C25_Witness ==
    /\ resp.op = "reset-password"
    /\ resp.status = 400
    /\ resp.msg = "Invalid or expired recovery code"
    /\ \E id \in 1..Len(users) :
        /\ issued[id].code # NoCode
        /\ users[id].recoveryCode = NoCode
        /\ Len(users[id].passwordHistory) > 1

\* the rejections the handlers answer with
ChangeRejections ==
    {"Current password is incorrect", "New password does not meet security requirements",
     "New password must be different from current password",
     "Cannot reuse any of your last 5 passwords"}
ResetRejections ==
    {"Invalid or expired recovery code", "Password does not meet requirements",
     "Password was used recently"}

\* C26: a rejected change-password (wrong current password, weak new password,
\* new password equal to the current one, reused password) and a rejected
\* reset-password (invalid or expired code, weak or reused password) leave
\* every stored user as it was: credential, passwordHistory,
\* lastPasswordChange, recovery code and expiry.
C26_RejectionChangesNothing ==
    /\ \A req \in ChangePasswordRequests \cup HistoryChangeRequests, hashOk \in BOOLEAN :
         \E r \in {changePassword(req, hashOk)} :
            r.res.msg \in ChangeRejections => (r.res.status \in 400..499 /\ r.users = users)
    /\ \A req \in ResetPasswordRequests \cup HistoryResetRequests, hashOk \in BOOLEAN :
         \E r \in {resetPassword(req, hashOk)} :
            r.res.msg \in ResetRejections => (r.res.status \in 400..499 /\ r.users = users)

\* a user holds an unexpired recovery code and a history of more than one
\* entry, and a change-password with the right current password is rejected
\* as a reuse
C26_Witness ==
    \E req \in ChangePasswordRequests \cup HistoryChangeRequests :
        /\ findById(req.userId) # 0
        /\ users[req.userId].recoveryCode # NoCode
        /\ users[req.userId].recoveryCodeExpires > now
        /\ Len(users[req.userId].passwordHistory) > 1
        /\ changePassword(req, TRUE).res.msg = "Cannot reuse any of your last 5 passwords"

(***************************************************************************)
(* Claims about concurrent registration (SpecConcurrent)                   *)
(***************************************************************************)
\* C27: no two persisted users share a username or an email, also when the
\* existence checks and saves of two register requests interleave.
C27_NoSharedUsernameOrEmail ==
    \A i, j \in 1..Len(users) :
        i # j => (users[i].username # users[j].username /\ users[i].email # users[j].email)

\* no two persisted users share an email
C27_NoSharedEmail ==
    \A i, j \in 1..Len(users) : i # j => users[i].email # users[j].email

(***************************************************************************)
(* Claims about the ownership of payments (SpecPayments)                   *)
(***************************************************************************)
\* an endpoint answers a caller with their own payments only, and changes
\* their own payments only
OwnOnly(op) ==
    \A req \in EndpointRequests(op) :
      \E auth \in {verifyToken(req)}, r \in {route(op, req)} :
        auth.next =>
          /\ \A i \in 1..Len(r.res.payments) : r.res.payments[i].userId = auth.user.id
          /\ Len(r.payments) = Len(payments)
          /\ \A i \in 1..Len(payments) :
                r.payments[i] # payments[i] => payments[i].userId = auth.user.id

\* C28: no payment endpoint (my-payments, received, get by transactionId,
\* update status, complete-my-payments) returns or updates a payment whose
\* userId differs from the id in the caller's token.
C28_OnlyOwnPayments == \A op \in Endpoints \ {"create"} : OwnOnly(op)

\* the endpoints that filter by userId keep to the caller's payments
C28_OnlyOwnPaymentsButReceived == \A op \in Endpoints \ {"create", "received"} : OwnOnly(op)

(***************************************************************************)
(* Claims about the client views (SpecValidation)                          *)
(***************************************************************************)
\* C29: for every password that RegisterView or RecoverPasswordView accepts
\* and submits, LoginView given exactly the same typed string submits it and
\* sends the server the string the other view sent to be stored.
C29_LoginSendsWhatWasStored ==
    (fout.fn \in {"RegisterView", "RecoverPasswordView"} /\ fout.value.submitted) =>
        \E l \in {LoginView_handleSubmit(LoginForm(fin.value.chars))} :
            l.submitted /\ l.body.password = fout.value.password
====
